---- MODULE Spec2Model ----
(***************************************************************************)
(* A model of the DNS / CDN migration scripts of rinawarp-platform.        *)
(*                                                                         *)
(*   SpecSync   scripts/sync_dns_records.py : the Cloudflare -> Route 53   *)
(*              conversion loop of main()                                  *)
(*   SpecPoll   the ACM certificate pollers of scripts/cleanup_dns.py and  *)
(*              scripts/update_cloudflare_dns.py                           *)
(*   SpecRecon  runs of the record-writing scripts on a Cloudflare zone     *)
(*              (update_cloudfront_dns.py, setup_cloudflare_redirects.py,  *)
(*              update_cloudflare_dns.py, cf-dns.py) and of                *)
(*              sync_to_route53 on a Route 53 zone                         *)
(*   SpecCdn    the CloudFront mutators (fix_cloudfront_monorepo.py,       *)
(*              update_cloudfront_origins.py) against a versioned config   *)
(*   SpecWatch  all polling loops, the rounds of monitor_migration.py and  *)
(*              monitor_deployment.py included, with operator interrupts;  *)
(*              SpecWatchFair is the same loops under weak fairness        *)
(*   SpecCleanup  scripts/cleanup_dns.py up to its poller                  *)
(*   SpecStart  the token lookup and first provider call of each main()    *)
(*   SpecExit   how a run ends: SpecRecon, SpecCleanup and SpecWatch       *)
(*   SpecBatch  sync_to_route53 on lists of up to MaxChanges changes       *)
(*   SpecConfirm  sync_dns_records.py main() as a whole: conversion,       *)
(*              confirmation prompt, call of sync_to_route53               *)
(*   SpecCert   the poller of cleanup_dns.py by what each CLI call gave    *)
(*                                                                         *)
(* Strings are sequences of chunks (a chunk is a short piece of text), so  *)
(* that startswith / endswith / `in` / f-string formatting are computed    *)
(* and not assumed.                                                        *)
(***************************************************************************)
EXTENDS Integers, Sequences, FiniteSets, TLC

VARIABLES
    script,            \* which script this run executes
    pc,                \* position of the running script
    \* ---- sync_dns_records.py main()
    cf_records,        \* the list get_cloudflare_records returned
    idx,               \* loop position in cf_records (1-based, next to handle)
    r53_records,       \* the change list built so far
    skipped_records,   \* the apex CNAMEs put aside
    r53_src,           \* history: r53_src[k] = index in cf_records r53_records[k] comes from
    resolved,          \* history: resolved[i] = what gethostbyname gave for cf_records[i]
    \* ---- certificate poller
    feed,              \* the statuses the provider answers, in order
    observed,          \* number of status fetches made
    waits,             \* number of completed time.sleep(30)
    outcome,           \* what the poller printed last as its result
    \* ---- Cloudflare / Route 53 zones and the reconciler runs
    zone,              \* Cloudflare zone: set of [id, name, type, content]
    nextId,            \* next record id the provider hands out
    r53zone,           \* Route 53 zone: set of resource record sets
    run,               \* number of the current run (1-based)
    pos,               \* loop position in the script's list of desired records / batches
    listed,            \* cleanup_dns.py: the NS records the list call returned
    last,              \* history: the last create-or-update invocation and its calls
    hist,              \* history: the zones the previous run left, failures, creations
    \* ---- CloudFront distributions and the config mutators
    remote,            \* remote[d] = [ETag, DistributionConfig] the provider holds for d
    fetched,           \* the mutator's locals etag and config between its two CLI calls
    tempfile,          \* content of temp_config.json, None when the file does not exist
    edits,             \* number of changes other writers made to the distributions
    attempts,          \* history: attempts[d] = CLI calls of this run on distribution d
    dlast,             \* history: the last finished mutator invocation
    \* ---- the process
    exit,              \* how the process ended: exit code and cause
    cred,              \* history: what the token lookup met and gave
    called             \* history: a provider call was made in this run

vars == <<script, pc, cf_records, idx, r53_records, skipped_records, r53_src, resolved,
          feed, observed, waits, outcome, zone, nextId, r53zone, run, pos, listed, last,
          hist,
          remote, fetched, tempfile, edits, attempts, dlast, exit, cred, called>>

syncVars == <<cf_records, idx, r53_records, skipped_records, r53_src, resolved>>
pollVars == <<feed, observed, waits, outcome>>
reconVars == <<zone, nextId, r53zone, run, pos, listed, last, hist>>
cdnVars == <<remote, fetched, tempfile, edits, attempts, dlast>>
procVars == <<exit, cred, called>>

-----------------------------------------------------------------------------
(* Bounds of the model *)

MaxRecords == 2     \* longest list of source records
MaxTxtLen == 2      \* longest TXT content, in chunks
MaxFeed == 3        \* longest sequence of answers the certificate provider gives
MaxRuns == 2        \* number of script runs in a row on the same zone
MaxEdits == 1       \* number of changes other writers make to the distributions
MaxChanges == 201   \* longest change list handed to sync_to_route53

-----------------------------------------------------------------------------
(* Strings *)

DQ == "\""
DOT == "."
SP == " "

Last(s) == s[Len(s)]

\* str.startswith
StartsWith(s, p) == Len(p) <= Len(s) /\ SubSeq(s, 1, Len(p)) = p

\* str.endswith
EndsWith(s, p) == Len(p) <= Len(s) /\ SubSeq(s, Len(s) - Len(p) + 1, Len(s)) = p

\* `p in s` for strings
Contains(s, p) == \E i \in 1..(Len(s) - Len(p) + 1) : SubSeq(s, i, i + Len(p) - 1) = p

Digit(d) == <<"0", "1", "2", "3", "4", "5", "6", "7", "8", "9">>[d + 1]

RECURSIVE Str(_)
\* str(n) of a non-negative int, as f"{n}" formats it
Str(n) == IF n < 10 THEN <<Digit(n)>> ELSE Str(n \div 10) \o <<Digit(n % 10)>>

RECURSIVE SeqsUpTo(_, _)
\* all sequences over S of length at most n
SeqsUpTo(S, n) ==
    IF n = 0 THEN {<<>>}
    ELSE LET shorter == SeqsUpTo(S, n - 1)
         IN  shorter \cup {Append(s, x) : s \in {t \in shorter : Len(t) = n - 1}, x \in S}

-----------------------------------------------------------------------------
(* sync_dns_records.py *)

ZONE_NAME == <<"rinawarptech", DOT, "com">>
RAILWAY == <<"railway", DOT, "app">>

\* Python's None, and a dict key that is absent
None == [py |-> "None"]
Absent == -1

\* the default of cf_record.get('ttl', 300) and resolve_railway_cname's ttl
DefaultTtl == 300
\* the default of cf_record.get('priority', 10)
DefaultPriority == 10

GetTtl(cf_record) == IF cf_record.ttl = Absent THEN DefaultTtl ELSE cf_record.ttl
GetPriority(cf_record) ==
    IF cf_record.priority = Absent THEN DefaultPriority ELSE cf_record.priority

\* what socket.gethostbyname can do: return an address or raise
IP1 == <<"10", DOT, "0", DOT, "0", DOT, "1">>
IP2 == <<"10", DOT, "0", DOT, "0", DOT, "2">>
RESOLVE_FAILS == <<"gaierror">>
NOT_CALLED == <<"not called">>
ResolveOutcomes == {IP1, IP2, RESOLVE_FAILS}

Change(name, type, ttl, value) ==
    [Action |-> "UPSERT",
     ResourceRecordSet |->
        [Name |-> name, Type |-> type, TTL |-> ttl,
         ResourceRecords |-> << [Value |-> value] >>]]

resolve_railway_cname_keeps_type(name, content, ttl, ip) ==
    IF ip = RESOLVE_FAILS THEN None ELSE Change(name, "CNAME", ttl, ip)

resolve_railway_cname(name, content, ttl, ip) ==
    IF ip = RESOLVE_FAILS THEN None ELSE Change(name, "A", ttl, ip)

\* lines 79-83: the name in Route 53 form
R53Name(name, zone_name) ==
    IF name = zone_name THEN zone_name \o <<DOT>>
    ELSE IF EndsWith(name, zone_name) THEN name \o <<DOT>>
    ELSE name

IsManagedType_only_ns(type) == type \in {"NS"}

\* line 75: cf_record['type'] in ['NS', 'SOA']
IsManagedType(type) == type \in {"NS", "SOA"}

\* line 86: the record goes through resolve_railway_cname
IsRailwayCname(cf_record) ==
    cf_record.type = "CNAME" /\ Contains(cf_record.content, RAILWAY)

\* lines 107-111
QuoteTxt(content) ==
    LET c1 == IF ~StartsWith(content, <<DQ>>) THEN <<DQ>> \o content \o <<DQ>> ELSE content
    IN  IF ~EndsWith(c1, <<DQ>>) THEN c1 \o <<DQ>> ELSE c1

MxValue_no_priority(cf_record) == cf_record.content

\* line 104
MxValue(cf_record) == Str(GetPriority(cf_record)) \o <<SP>> \o cf_record.content

\* ip is what gethostbyname does if it is called for this record
cloudflare_to_route53_record(cf_record, zone_name, ip) ==
    IF IsManagedType(cf_record.type) THEN None
    ELSE
      LET name == R53Name(cf_record.name, zone_name)
          result == IF IsRailwayCname(cf_record)
                    THEN resolve_railway_cname(name, cf_record.content, GetTtl(cf_record), ip)
                    ELSE None
          value == IF cf_record.type = "MX" THEN MxValue(cf_record)
                   ELSE IF cf_record.type = "TXT" THEN QuoteTxt(cf_record.content)
                   ELSE cf_record.content
      IN  IF result # None THEN result
          ELSE Change(name, cf_record.type, GetTtl(cf_record), value)

-----------------------------------------------------------------------------
(* The records get_cloudflare_records can return (a bounded sample of each
   kind the conversion distinguishes) *)

ApexName == ZONE_NAME
SubName == <<"api", DOT>> \o ZONE_NAME
ForeignName == <<"other", DOT, "net">>

RailwayHost == <<"x", DOT, "up", DOT>> \o RAILWAY          \* ends with railway.app
RailwayInside == RAILWAY \o <<DOT, "proxy", DOT, "net">>   \* contains it, other suffix
PlainHost == <<"target", DOT, "example", DOT, "com">>
MailHost == <<"mail", DOT, "example", DOT, "com">>
NsHost == <<"ns1", DOT, "example", DOT, "com">>

CfRecord(type, name, content, ttl, priority) ==
    [type |-> type, name |-> name, content |-> content, ttl |-> ttl, priority |-> priority]

TxtContents == SeqsUpTo({"v", DQ}, MaxTxtLen)

SourceRecords ==
         {CfRecord("A", n, IP1, t, Absent) : n \in {ApexName, SubName}, t \in {Absent, 3600}}
    \cup {CfRecord("CNAME", n, c, 3600, Absent) :
             n \in {ApexName, SubName, ForeignName},
             c \in {RailwayHost, RailwayInside, PlainHost}}
    \cup {CfRecord("CNAME", SubName, RailwayHost, Absent, Absent)}
    \cup {CfRecord(t, n, NsHost, 3600, Absent) : t \in {"NS", "SOA"}, n \in {ApexName, SubName}}
    \cup {CfRecord("MX", ApexName, MailHost, 3600, p) : p \in {Absent, 5, 20}}
    \cup {CfRecord("TXT", SubName, c, 3600, Absent) : c \in TxtContents}

-----------------------------------------------------------------------------
(* Values of the variables a specification does not use *)

IdleSync ==
    /\ cf_records = <<>> /\ idx = 1 /\ r53_records = <<>> /\ skipped_records = <<>>
    /\ r53_src = <<>> /\ resolved = <<>>

IdlePoll == feed = <<>> /\ observed = 0 /\ waits = 0 /\ outcome = "none"

NoInvocation == [script |-> "none"]
NoHistory ==
    [prevScript |-> "none", prevClean |-> FALSE, prevZone |-> {}, prevR53 |-> {},
     clean |-> TRUE, created |-> 0, ran |-> {}]

IdleRecon ==
    /\ zone = {} /\ nextId = 1 /\ r53zone = {} /\ run = 1 /\ pos = 1 /\ listed = <<>>
    /\ last = NoInvocation /\ hist = NoHistory

IdleCdn ==
    /\ remote = <<>> /\ fetched = None /\ tempfile = None /\ edits = 0
    /\ attempts = <<>> /\ dlast = NoInvocation

Running == [code |-> Absent, cause |-> "running", at |-> "none"]
NoLookup == [kubectl |-> "none"]

IdleProc == exit = Running /\ cred = NoLookup /\ called = FALSE

-----------------------------------------------------------------------------
(* The process: how it ends, and the token lookup its main starts with *)

\* how a process ends: main returned or sys.exit(0) was called (exit code 0),
\* sys.exit(1), an exception nobody caught (traceback, exit code 1), an interrupt
\* nobody caught (traceback, the process dies of SIGINT: 130 to the shell)
Exited(code, cause, at) == [code |-> code, cause |-> cause, at |-> at]
Returns(at) == Exited(0, "returned", at)
Uncaught(at) == Exited(1, "uncaught", at)

Failed(h) == [h EXCEPT !.clean = FALSE]

\* the scripts whose main starts with get_cloudflare_token()
TokenScripts ==
    {"sync_dns_records", "cleanup_dns", "setup_cloudflare_redirects",
     "update_cloudfront_dns", "update_cloudflare_dns"}

\* a token value: a string, or None
Tok(text) == [str |-> text]

\* what `kubectl get secret ... -o jsonpath={.data.api-token}` can do: print the
\* base64 of the token; print nothing (the key is not in the secret); print
\* something base64.b64decode or bytes.decode rejects; exit non-zero; not start
\* at all (no kubectl on the PATH: subprocess.run raises FileNotFoundError)
KubectlOutcomes ==
    { [started |-> TRUE, returncode |-> 0, decodes |-> TRUE, secret |-> "cluster-token"],
      [started |-> TRUE, returncode |-> 0, decodes |-> TRUE, secret |-> ""],
      [started |-> TRUE, returncode |-> 0, decodes |-> FALSE, secret |-> ""],
      [started |-> TRUE, returncode |-> 1, decodes |-> FALSE, secret |-> ""],
      [started |-> FALSE, returncode |-> Absent, decodes |-> FALSE, secret |-> ""] }

\* os.environ.get('CLOUDFLARE_API_TOKEN'): set, set to the empty string, unset
EnvValues == { Tok("env-token"), Tok(""), None }

\* get_cloudflare_token (sync_dns_records.py 10-21, the same text in
\* cleanup_dns.py 10-20, setup_cloudflare_redirects.py 8-18, update_cloudfront_dns.py
\* 9-19, update_cloudflare_dns.py 9-19, update_nameservers.py 8-19): the one
\* handler is `except subprocess.CalledProcessError`, which check=True raises on
\* a non-zero exit; any other exception leaves the function
get_cloudflare_token(kubectl, env) ==
    IF ~kubectl.started THEN [raised |-> TRUE, value |-> None]
    ELSE IF kubectl.returncode # 0 THEN [raised |-> FALSE, value |-> env]
    ELSE IF ~kubectl.decodes THEN [raised |-> TRUE, value |-> None]
    ELSE [raised |-> FALSE, value |-> Tok(kubectl.secret)]

\* a variant of the check that lets every token through
TokenMissing_never(token) == FALSE

\* `if not token` (sync_dns_records.py 137, cleanup_dns.py 94,
\* setup_cloudflare_redirects.py 122)
TokenMissing(token) == token = None \/ token = Tok("")

\* a variant in which every statement of main is inside its try block
InTry_everywhere(s, step) == TRUE

\* whether the step of main is inside a try block with an `except Exception`
\* handler.  The body of main is one try block in sync_dns_records.py (134-187),
\* cleanup_dns.py (91-166), update_cloudfront_dns.py and update_cloudflare_dns.py;
\* setup_cloudflare_redirects.py calls get_cloudflare_token and get_zone_id
\* outside any try (121, 128) and wraps each record and each page rule (136-144,
\* 162-183)
InTry(s, step) == ~(s = "setup_cloudflare_redirects" /\ step \in {"token", "zone"})

\* how the process ends when the step raises
EndsOnRaise(s, step) == IF InTry(s, step) THEN Returns(step) ELSE Uncaught(step)

\* main up to the token check (sync_dns_records.py 136-138, cleanup_dns.py 93-95,
\* setup_cloudflare_redirects.py 121-124): without a token main leaves, by
\* `raise Exception(...)` into its handler or by `return`
GetToken ==
    /\ script \in TokenScripts /\ pc = "start"
    /\ \E kubectl \in KubectlOutcomes, env \in EnvValues :
         LET result == get_cloudflare_token(kubectl, env)
         IN  /\ cred' = [kubectl |-> kubectl, env |-> env, result |-> result]
             /\ IF result.raised
                THEN /\ pc' = "ended"
                     /\ exit' = EndsOnRaise(script, "token")
                     /\ hist' = Failed(hist)
                ELSE IF TokenMissing(result.value)
                THEN /\ pc' = "ended"
                     /\ exit' = Returns("token")
                     /\ hist' = Failed(hist)
                ELSE /\ pc' = "begin"
                     /\ UNCHANGED <<exit, hist>>
    /\ UNCHANGED <<script, called, zone, nextId, r53zone, run, pos, listed, last>>
    /\ UNCHANGED syncVars /\ UNCHANGED pollVars /\ UNCHANGED cdnVars

-----------------------------------------------------------------------------
(* sync_dns_records.py main(), lines 134-160: up to the end of the conversion loop *)

InitSync ==
    /\ script = "sync_dns_records"
    /\ pc = "start"
    /\ cf_records = <<>>
    /\ idx = 1
    /\ r53_records = <<>>
    /\ skipped_records = <<>>
    /\ r53_src = <<>>
    /\ resolved = <<>>
    /\ IdlePoll
    /\ IdleRecon
    /\ IdleCdn
    /\ IdleProc

\* lines 140-142: get_cloudflare_records, the first provider call; when it
\* raises, the handler of main (186-187) prints the error and main returns
FetchRecords ==
    /\ script = "sync_dns_records" /\ pc = "begin"
    /\ called' = TRUE
    /\ cred' = NoLookup
    /\ \E ok \in BOOLEAN, recs \in SeqsUpTo(SourceRecords, MaxRecords) :
         IF ok
         THEN /\ cf_records' = recs
              /\ pc' = "convert"
              /\ UNCHANGED exit
         ELSE /\ pc' = "ended"
              /\ exit' = EndsOnRaise(script, "records")
              /\ UNCHANGED cf_records
    /\ UNCHANGED <<script, idx, r53_records, skipped_records, r53_src, resolved>>
    /\ UNCHANGED pollVars /\ UNCHANGED reconVars /\ UNCHANGED cdnVars

\* a variant that lets an apex CNAME pointing at the hosting provider through
IsApexCname_but_railway(record) ==
    record.type = "CNAME" /\ record.name = ZONE_NAME /\ ~EndsWith(record.content, RAILWAY)

\* line 154: record['type'] == 'CNAME' and record['name'] == ZONE_NAME
IsApexCname(record) == record.type = "CNAME" /\ record.name = ZONE_NAME

\* lines 153-156
SkipApexCname ==
    /\ script = "sync_dns_records" /\ pc = "convert"
    /\ idx <= Len(cf_records)
    /\ IsApexCname(cf_records[idx])
    /\ skipped_records' = Append(skipped_records, cf_records[idx])
    /\ resolved' = Append(resolved, NOT_CALLED)
    /\ idx' = idx + 1
    /\ UNCHANGED <<script, pc, cf_records, r53_records, r53_src>>
    /\ UNCHANGED pollVars /\ UNCHANGED reconVars
    /\ UNCHANGED cdnVars /\ UNCHANGED procVars

\* lines 158-160
ConvertRecord ==
    /\ script = "sync_dns_records" /\ pc = "convert"
    /\ idx <= Len(cf_records)
    /\ ~IsApexCname(cf_records[idx])
    /\ LET record == cf_records[idx]
           callsResolver == ~IsManagedType(record.type) /\ IsRailwayCname(record)
       IN  \E ip \in (IF callsResolver THEN ResolveOutcomes ELSE {NOT_CALLED}) :
             LET r53_record == cloudflare_to_route53_record(record, ZONE_NAME, ip)
             IN  /\ resolved' = Append(resolved, ip)
                 /\ IF r53_record # None
                    THEN /\ r53_records' = Append(r53_records, r53_record)
                         /\ r53_src' = Append(r53_src, idx)
                    ELSE UNCHANGED <<r53_records, r53_src>>
    /\ idx' = idx + 1
    /\ UNCHANGED <<script, pc, cf_records, skipped_records>>
    /\ UNCHANGED pollVars /\ UNCHANGED reconVars
    /\ UNCHANGED cdnVars /\ UNCHANGED procVars

\* the for loop of line 152 is exhausted; main goes on to print and prompt (162-176)
ConvertDone ==
    /\ script = "sync_dns_records" /\ pc = "convert"
    /\ idx > Len(cf_records)
    /\ pc' = "confirm"
    /\ UNCHANGED script /\ UNCHANGED syncVars /\ UNCHANGED pollVars /\ UNCHANGED reconVars
    /\ UNCHANGED cdnVars /\ UNCHANGED procVars

NextSync == GetToken \/ FetchRecords \/ SkipApexCname \/ ConvertRecord \/ ConvertDone

SpecSync == InitSync /\ [][NextSync]_vars

-----------------------------------------------------------------------------
(* Properties of the conversion *)

\* the changes emitted for source record i
ChangesOf(i) == {k \in 1..Len(r53_records) : r53_src[k] = i}
\* the source records the loop has handled
Handled == 1..(idx - 1)
ChangeSet(k) == r53_records[k].ResourceRecordSet
\* the same DNS name, written with or without the root dot
SameName(r53name, name) == r53name = name \/ r53name = name \o <<DOT>>
MatchesRailwaySuffix(record) == record.type = "CNAME" /\ EndsWith(record.content, RAILWAY)

\* C1: no change in the list built by the sync run comes from a source record of
\* type NS or SOA: for each such record handled, the conversion returned nothing.
C1_NoNsSoaChange ==
    \A i \in Handled :
        cf_records[i].type \in {"NS", "SOA"} => ChangesOf(i) = {}

C1_Witness ==
    /\ pc = "confirm"
    /\ \E i \in Handled : cf_records[i].type = "SOA"
    /\ \E i \in Handled : cf_records[i].type = "NS"
    /\ Len(cf_records) = 2

\* C2: a CNAME whose content ends with railway.app and whose target resolved to an
\* address yields exactly one change: an UPSERT of type A, same name, whose single
\* value is that address.
C2_RailwayCnameBecomesA ==
    \A i \in Handled :
        (MatchesRailwaySuffix(cf_records[i]) /\ resolved[i] \in {IP1, IP2}) =>
            /\ Cardinality(ChangesOf(i)) = 1
            /\ \A k \in ChangesOf(i) :
                 /\ r53_records[k].Action = "UPSERT"
                 /\ ChangeSet(k).Type = "A"
                 /\ SameName(ChangeSet(k).Name, cf_records[i].name)
                 /\ ChangeSet(k).ResourceRecords = << [Value |-> resolved[i]] >>

C2_Witness ==
    /\ pc = "confirm"
    /\ \E i \in Handled :
         /\ MatchesRailwaySuffix(cf_records[i]) /\ resolved[i] = IP2
         /\ \E k \in ChangesOf(i) : ChangeSet(k).Type = "A"

\* C3: a CNAME whose content ends with railway.app and whose resolution failed
\* yields no change at all, and the loop goes on with the next record.
C3_FailedResolutionDropsRecord ==
    \A i \in Handled :
        (MatchesRailwaySuffix(cf_records[i]) /\ resolved[i] = RESOLVE_FAILS) =>
            ChangesOf(i) = {}

\* what the code does instead: the record is emitted unchanged, as a CNAME
C3_FailedResolutionKeepsCname ==
    \A i \in Handled :
        (MatchesRailwaySuffix(cf_records[i]) /\ resolved[i] = RESOLVE_FAILS) =>
            /\ Cardinality(ChangesOf(i)) = 1
            /\ \A k \in ChangesOf(i) :
                 /\ ChangeSet(k).Type = "CNAME"
                 /\ ChangeSet(k).ResourceRecords = << [Value |-> cf_records[i].content] >>

IsQuoted(s) == Len(s) >= 2 /\ s[1] = DQ /\ Last(s) = DQ

\* C4: the value emitted for a TXT record is wrapped in one pair of double quotes:
\* length at least 2, an opening quote, a distinct closing quote; an input that is
\* already quoted is emitted as it is.
C4_TxtQuotedOnce ==
    \A k \in 1..Len(r53_records) :
        cf_records[r53_src[k]].type = "TXT" =>
            LET value == ChangeSet(k).ResourceRecords[1].Value
                content == cf_records[r53_src[k]].content
            IN  /\ Len(ChangeSet(k).ResourceRecords) = 1
                /\ IsQuoted(value)
                /\ IsQuoted(content) => value = content

\* C5: an MX record stays MX and its single value is "<priority> <content>".
C5_MxValue ==
    \A i \in Handled :
        cf_records[i].type = "MX" =>
            /\ Cardinality(ChangesOf(i)) = 1
            /\ \A k \in ChangesOf(i) :
                 /\ ChangeSet(k).Type = "MX"
                 /\ Len(ChangeSet(k).ResourceRecords) = 1
                 /\ cf_records[i].priority # Absent =>
                      ChangeSet(k).ResourceRecords[1].Value =
                          Str(cf_records[i].priority) \o <<SP>> \o cf_records[i].content

C5_Witness ==
    /\ pc = "confirm"
    /\ \E k \in 1..Len(r53_records) :
         /\ cf_records[r53_src[k]].type = "MX"
         /\ cf_records[r53_src[k]].priority = 20
         /\ ChangeSet(k).ResourceRecords[1].Value = <<"2", "0", SP>> \o MailHost

-----------------------------------------------------------------------------
(* The certificate poller: cleanup_dns.py main() lines 141-163 and
   update_cloudflare_dns.py main() lines 133-153 *)

\* what one `aws acm describe-certificate` can give: a Status, or a failing call
\* (non-zero exit, output that is no JSON, no Status key), seen as an exception
FETCH_ERROR == "fetch raised"
NonTerminal == {"PENDING_VALIDATION", "VALIDATION_TIMED_OUT"}
Answers == NonTerminal \cup {"ISSUED", "FAILED", FETCH_ERROR}

PollerScripts == {"cleanup_dns", "update_cloudflare_dns"}

\* the module `time` is bound in the script: cleanup_dns.py imports it (line 7),
\* update_cloudflare_dns.py has no such import (lines 2-7)
TimeImported(s) == s # "update_cloudflare_dns"

InitPoll ==
    /\ script \in PollerScripts
    /\ pc = "fetch"
    /\ feed \in SeqsUpTo(Answers, MaxFeed)
    /\ observed = 0
    /\ waits = 0
    /\ outcome = "none"
    /\ IdleSync
    /\ IdleRecon
    /\ IdleCdn
    /\ IdleProc

\* the branch taken on one answer: the result printed and where the loop goes
\* (cleanup_dns.py 147-163, update_cloudflare_dns.py 139-150)
OnAnswer(status) ==
    IF status = FETCH_ERROR THEN [outcome |-> "error", pc |-> "done"]
    ELSE IF status = "ISSUED" THEN [outcome |-> "validated", pc |-> "done"]
    ELSE IF status = "FAILED" THEN [outcome |-> "failed", pc |-> "done"]
    ELSE [outcome |-> "none", pc |-> "sleep"]

\* one pass of the loop body up to the sleep: run the CLI, parse, print, branch.
\* The answer is the i-th of the feed; n is the number of fetches made then.
\* Leaving the loop, main prints and returns.
FetchStatusAt(i, n) ==
    /\ script \in PollerScripts /\ pc = "fetch"
    /\ observed' = n
    /\ outcome' = OnAnswer(feed[i]).outcome
    /\ pc' = OnAnswer(feed[i]).pc
    /\ exit' = IF pc' = "done" THEN Returns("fetch") ELSE exit
    /\ UNCHANGED <<script, feed, waits, cred, called>>
    /\ UNCHANGED syncVars /\ UNCHANGED reconVars /\ UNCHANGED cdnVars

FetchStatus ==
    /\ observed < Len(feed)
    /\ FetchStatusAt(observed + 1, observed + 1)

\* time.sleep returns and the loop starts over; w is the number of waits then
SleepAt(w) ==
    /\ pc = "sleep"
    /\ TimeImported(script)
    /\ waits' = w
    /\ pc' = "fetch"
    /\ UNCHANGED <<script, feed, observed, outcome>>
    /\ UNCHANGED syncVars /\ UNCHANGED reconVars
    /\ UNCHANGED cdnVars /\ UNCHANGED procVars

Sleep == SleepAt(waits + 1)

\* time.sleep(30) where the name `time` is unbound: NameError, which the handler
\* `except Exception` of main catches (update_cloudflare_dns.py 153, 155-156);
\* main prints the error and returns
SleepRaises ==
    /\ script \in PollerScripts /\ pc = "sleep"
    /\ ~TimeImported(script)
    /\ outcome' = "error"
    /\ pc' = "done"
    /\ exit' = Returns("sleep")
    /\ UNCHANGED <<script, feed, observed, waits, cred, called>>
    /\ UNCHANGED syncVars /\ UNCHANGED reconVars /\ UNCHANGED cdnVars

NextPoll == FetchStatus \/ Sleep \/ SleepRaises

SpecPoll == InitPoll /\ [][NextPoll]_vars

-----------------------------------------------------------------------------
(* Properties of the poller *)

\* n non-terminal statuses followed by the terminal status t
PendingThen(f, t) ==
    /\ Len(f) >= 1
    /\ f[Len(f)] = t
    /\ \A i \in 1..(Len(f) - 1) : f[i] \in NonTerminal

\* C6: on n non-terminal statuses followed by ISSUED the poller makes n+1
\* observations and n waits, then stops reporting success.
C6_IssuedAfterNWaits ==
    (pc = "done" /\ PendingThen(feed, "ISSUED")) =>
        /\ observed = Len(feed)
        /\ waits = Len(feed) - 1
        /\ outcome = "validated"

\* C6 as it holds of cleanup_dns.py alone
C6_CleanupDns ==
    (script = "cleanup_dns" /\ pc = "done" /\ PendingThen(feed, "ISSUED")) =>
        /\ observed = Len(feed)
        /\ waits = Len(feed) - 1
        /\ outcome = "validated"

\* C7: on n non-terminal statuses followed by FAILED the poller stops after n+1
\* observations with a failure result, which is not the success result.
C7_FailedAfterNObservations ==
    (pc = "done" /\ PendingThen(feed, "FAILED")) =>
        /\ observed = Len(feed)
        /\ waits = Len(feed) - 1
        /\ outcome = "failed"
        /\ outcome # "validated"

\* C7 as it holds of cleanup_dns.py alone
C7_CleanupDns ==
    (script = "cleanup_dns" /\ pc = "done" /\ PendingThen(feed, "FAILED")) =>
        /\ observed = Len(feed)
        /\ waits = Len(feed) - 1
        /\ outcome = "failed"

\* neither poller observes or waits after a terminal status
PollerStopsAtTerminal ==
    \A i \in 1..observed :
        feed[i] \in {"ISSUED", "FAILED", FETCH_ERROR} => (i = observed /\ pc = "done")

-----------------------------------------------------------------------------
(* The Cloudflare zone as the scripts use it.  A stored record carries its
   id and its fully qualified name; the list call filters on equality. *)

\* the provider stores a record under its full name: a name given relative to
\* the zone is completed ("api" is stored as "api.rinawarptech.com", what
\* update_cloudfront_dns.py 66-69 and setup_cloudflare_redirects.py 81 look up)
CfFullName(name) ==
    IF EndsWith(name, ZONE_NAME) THEN name ELSE name \o <<DOT>> \o ZONE_NAME

Stored(id, record) ==
    [id |-> id, name |-> CfFullName(record.name), type |-> record.type,
     content |-> record.content]

\* GET dns_records with params name and type
ListByNameType(z, name, type) == {r \in z : r.name = name /\ r.type = type}

RECURSIVE RemoveAll(_, _)
\* str.replace(p, '')
RemoveAll(s, p) ==
    IF Len(s) < Len(p) \/ Len(p) = 0 THEN s
    ELSE IF SubSeq(s, 1, Len(p)) = p THEN RemoveAll(SubSeq(s, Len(p) + 1, Len(s)), p)
    ELSE <<s[1]>> \o RemoveAll(Tail(s), p)

Host(label) == <<label, DOT>> \o ZONE_NAME
CloudfrontHost(label) == <<label, DOT, "cloudfront", DOT, "net">>

\* update_cloudfront_dns.py main(), lines 98-115
distributions ==
    << [domain |-> Host("api"), cloudfront |-> CloudfrontHost("d9db5a94dictq")],
       [domain |-> Host("docs"), cloudfront |-> CloudfrontHost("d1cabz99ab90wf")],
       [domain |-> ZONE_NAME, cloudfront |-> CloudfrontHost("dbj4krew5gpfp")],
       [domain |-> Host("www"), cloudfront |-> CloudfrontHost("d361asqhi0ugoo")] >>

\* update_cloudfront_dns.py main(), lines 133-149: the record built for one distribution
CloudfrontRecord(dist) ==
    [type |-> "CNAME",
     name |-> IF dist.domain = ZONE_NAME THEN dist.domain
              ELSE RemoveAll(dist.domain, <<DOT>> \o ZONE_NAME),
     content |-> dist.cloudfront]

\* setup_cloudflare_redirects.py, lines 133 and 93-99
subdomains == << <<"api">>, <<"docs">> >>
RedirectRecord(name) == [type |-> "CNAME", name |-> name, content |-> ZONE_NAME]

\* update_cloudflare_dns.py, lines 76-85
ValidationName == <<"_87dcf068b52efd9d35831bcc920b95ff">>
ValidationTarget == <<"_805ceb83cfdb2e0600616d81ffac9513", DOT, "acm-validations", DOT, "aws">>
records == << [type |-> "CNAME", name |-> ValidationName, content |-> ValidationTarget] >>

UpdateScripts == {"update_cloudfront_dns", "setup_cloudflare_redirects", "update_cloudflare_dns"}
CloudflareScripts == UpdateScripts \cup {"cf-dns"}
ReconScripts == CloudflareScripts \cup {"sync_to_route53"}
BeginScripts == (ReconScripts \ {"cf-dns"}) \cup {"cleanup_dns"}

\* the records a script passes to its update_dns_record, in order
Desired(s) ==
    IF s = "update_cloudfront_dns"
    THEN [i \in 1..Len(distributions) |-> CloudfrontRecord(distributions[i])]
    ELSE IF s = "setup_cloudflare_redirects"
    THEN [i \in 1..Len(subdomains) |-> RedirectRecord(subdomains[i])]
    ELSE IF s = "update_cloudflare_dns" THEN records
    ELSE <<>>

FullNameCloudfront_as_given(name) == name

\* update_cloudfront_dns.py update_dns_record, lines 67-69
FullNameCloudfront(name) ==
    IF name = ZONE_NAME THEN name ELSE name \o <<DOT>> \o ZONE_NAME

\* setup_cloudflare_redirects.py update_dns_record, line 81
FullNameRedirects(name) == name \o <<DOT>> \o ZONE_NAME

\* the existing records an update_dns_record finds for `record`:
\*   update_cloudfront_dns.py 63-74      scan of all records for (full_name, type)
\*   setup_cloudflare_redirects.py 78-91 list filtered on (name.rinawarptech.com, type)
\*   update_cloudflare_dns.py 49-57      list filtered on (record['name'], type)
Found(s, z, record) ==
    IF s = "update_cloudfront_dns"
    THEN {r \in z : r.name = FullNameCloudfront(record.name) /\ r.type = record.type}
    ELSE IF s = "setup_cloudflare_redirects"
    THEN ListByNameType(z, FullNameRedirects(record.name), record.type)
    ELSE ListByNameType(z, record.name, record.type)

\* the records of the zone that have the desired record's full name and type
Matching(z, record) == ListByNameType(z, CfFullName(record.name), record.type)

NoRecord == [id |-> 0]

\* the zones a run can start from: every (name, type) at most once
InitialRecords ==
    { [id |-> 1, name |-> Host("api"), type |-> "CNAME", content |-> RailwayHost],
      [id |-> 2, name |-> ZONE_NAME, type |-> "A", content |-> IP1],
      [id |-> 3, name |-> Host("docs"), type |-> "CNAME", content |-> ZONE_NAME] }
FirstFreeId == Cardinality(InitialRecords) + 1

\* the arguments cf-dns.py is run with (record_name, target)
CfDnsNames == { <<"api">>, <<"docs">> }

-----------------------------------------------------------------------------
(* Route 53 as sync_to_route53 uses it: a zone is a set of resource record
   sets, UPSERT replaces the set with the change's name and type *)

\* sync_dns_records.py, line 120
batch_size == 100

\* a variant whose slices end one element late: records[i:i + batch_size + 1]
Batches_overlapping(recs, size) ==
    [b \in 1..((Len(recs) + size - 1) \div size) |->
        SubSeq(recs, (b - 1) * size + 1,
               IF b * size + 1 <= Len(recs) THEN b * size + 1 ELSE Len(recs))]

RECURSIVE Batches(_, _)
\* line 121: [records[i:i + batch_size] for i in range(0, len(records), batch_size)]
Batches(recs, size) ==
    IF Len(recs) = 0 THEN <<>>
    ELSE IF Len(recs) <= size THEN <<recs>>
    ELSE <<SubSeq(recs, 1, size)>> \o Batches(SubSeq(recs, size + 1, Len(recs)), size)

Upsert(z, change) ==
    LET rrs == change.ResourceRecordSet
    IN  {x \in z : ~(x.Name = rrs.Name /\ x.Type = rrs.Type)} \cup {rrs}

\* change_resource_record_sets of one batch, the changes applied in order: of
\* the changes for one (Name, Type) the last one stays, and a set of the zone
\* stays when no change is for its (Name, Type)
ApplyBatch(z, batch) ==
    LET rrs(i) == batch[i].ResourceRecordSet
        same(a, b) == a.Name = b.Name /\ a.Type = b.Type
    IN  {x \in z : \A i \in 1..Len(batch) : ~same(x, rrs(i))}
        \cup {rrs(i) : i \in {j \in 1..Len(batch) :
                                \A k \in (j + 1)..Len(batch) : ~same(rrs(j), rrs(k))}}

\* change lists the conversion produces
SampleChanges ==
    { cloudflare_to_route53_record(CfRecord("A", SubName, IP1, 3600, Absent), ZONE_NAME, NOT_CALLED),
      cloudflare_to_route53_record(CfRecord("A", SubName, IP2, 3600, Absent), ZONE_NAME, NOT_CALLED),
      cloudflare_to_route53_record(CfRecord("MX", ApexName, MailHost, 3600, 5), ZONE_NAME, NOT_CALLED) }

InitialR53Zones ==
    { {}, { Change(SubName \o <<DOT>>, "A", 60, IP2).ResourceRecordSet } }

-----------------------------------------------------------------------------
(* Runs of the record-writing scripts *)

\* where main starts: at the token lookup, or (cf-dns.py, which takes the token
\* from its arguments, and sync_to_route53) at its first statement
FirstStep(s) == IF s \in TokenScripts THEN "start" ELSE "begin"

InitRecon ==
    /\ script \in ReconScripts
    /\ pc = FirstStep(script)
    /\ zone \in SUBSET InitialRecords
    /\ nextId = FirstFreeId
    /\ r53zone \in InitialR53Zones
    /\ run = 1
    /\ pos = 1
    /\ listed = <<>>
    /\ last = NoInvocation
    /\ hist = [NoHistory EXCEPT !.ran = {script}]
    /\ cf_records = <<>> /\ idx = 1 /\ skipped_records = <<>>
    /\ r53_src = <<>> /\ resolved = <<>>
    /\ r53_records \in (IF script = "sync_to_route53"
                        THEN SeqsUpTo(SampleChanges, MaxRecords) ELSE {<<>>})
    /\ IdlePoll
    /\ IdleCdn
    /\ IdleProc

\* what precedes the record loop: get_zone_id, the first provider call
\* (update_cloudfront_dns.py 124-129, setup_cloudflare_redirects.py 126-128,
\* update_cloudflare_dns.py 92-93, cleanup_dns.py 97-99), for sync_to_route53 the
\* boto3 client (sync_dns_records.py 117).  A failure here ends the run.
Begin ==
    /\ script \in BeginScripts /\ pc = "begin"
    /\ called' = (script # "sync_to_route53")
    /\ cred' = NoLookup
    /\ \E ok \in BOOLEAN :
         /\ pc' = IF ok THEN "records" ELSE "ended"
         /\ hist' = IF ok THEN hist ELSE Failed(hist)
         /\ exit' = IF ok THEN exit ELSE EndsOnRaise(script, "zone")
    /\ UNCHANGED <<script, zone, nextId, r53zone, run, pos, listed, last>>
    /\ UNCHANGED syncVars /\ UNCHANGED pollVars
    /\ UNCHANGED cdnVars

\* one update_dns_record(zone_id, token, record) call of the loop of main, with the
\* try/except around it (update_cloudfront_dns.py 55-94 and 152-162,
\* setup_cloudflare_redirects.py 70-117 and 136-144, update_cloudflare_dns.py 41-74
\* and 116-126).  lookupOk / callOk: the provider answers the list call / the PUT
\* or POST without an HTTP error; hit: the first record of the lookup's result.
UpdateDnsRecord ==
    /\ script \in UpdateScripts /\ pc = "records"
    /\ pos <= Len(Desired(script))
    /\ LET record == Desired(script)[pos]
           found == Found(script, zone, record)
       IN  \E lookupOk \in BOOLEAN, callOk \in BOOLEAN,
              hit \in (IF found = {} THEN {NoRecord} ELSE found) :
             LET method == IF hit = NoRecord THEN "POST" ELSE "PUT"
                 target == IF hit = NoRecord THEN nextId ELSE hit.id
                 done == lookupOk /\ callOk
             IN  /\ zone' = IF ~done THEN zone
                            ELSE IF method = "POST" THEN zone \cup {Stored(nextId, record)}
                            ELSE (zone \ {hit}) \cup {Stored(hit.id, record)}
                 /\ nextId' = IF done /\ method = "POST" THEN nextId + 1 ELSE nextId
                 /\ last' = [script |-> script, record |-> record,
                             matching |-> Matching(zone, record),
                             lookupOk |-> lookupOk,
                             made |-> IF lookupOk
                                      THEN << [method |-> method, id |-> target, ok |-> callOk] >>
                                      ELSE <<>>]
                 /\ hist' = [hist EXCEPT
                               !.clean = @ /\ done,
                               !.created = IF done /\ method = "POST" THEN @ + 1 ELSE @]
    /\ pos' = pos + 1
    /\ UNCHANGED <<script, pc, r53zone, run, listed>>
    /\ UNCHANGED syncVars /\ UNCHANGED pollVars
    /\ UNCHANGED cdnVars /\ UNCHANGED procVars

\* cf-dns.py 36-39: called with another number of arguments than four, the
\* script prints its usage and calls sys.exit(1)
CfDnsUsage ==
    /\ script = "cf-dns" /\ pc = "begin"
    /\ pc' = "ended"
    /\ exit' = Exited(1, "usage", "arguments")
    /\ hist' = Failed(hist)
    /\ UNCHANGED <<script, cred, called, zone, nextId, r53zone, run, pos, listed, last>>
    /\ UNCHANGED syncVars /\ UNCHANGED pollVars /\ UNCHANGED cdnVars

\* cf-dns.py 41-46 and add_cname_record, lines 5-33, called with four arguments:
\* the zone lookup, then a POST of the
\* record, whatever the zone holds
AddCnameRecord ==
    /\ script = "cf-dns" /\ pc = "begin"
    /\ \E record_name \in CfDnsNames, zoneOk \in BOOLEAN, callOk \in BOOLEAN :
         LET record == [type |-> "CNAME", name |-> record_name, content |-> RailwayHost]
             done == zoneOk /\ callOk
         IN  /\ zone' = IF done THEN zone \cup {Stored(nextId, record)} ELSE zone
             /\ nextId' = IF done THEN nextId + 1 ELSE nextId
             /\ last' = [script |-> script, record |-> record,
                         matching |-> Matching(zone, record),
                         lookupOk |-> zoneOk,
                         made |-> IF zoneOk
                                  THEN << [method |-> "POST", id |-> nextId, ok |-> callOk] >>
                                  ELSE <<>>]
             /\ hist' = [hist EXCEPT !.clean = @ /\ done,
                                     !.created = IF done THEN @ + 1 ELSE @]
    /\ pc' = "ended"
    /\ exit' = Returns("end")
    /\ called' = TRUE
    /\ UNCHANGED <<script, r53zone, run, pos, listed, cred>>
    /\ UNCHANGED syncVars /\ UNCHANGED pollVars
    /\ UNCHANGED cdnVars

\* history: the batches this run has submitted so far
Submitted == IF last = NoInvocation THEN <<>> ELSE last.submitted

\* sync_to_route53, lines 123-128: one change_resource_record_sets call
SubmitBatch ==
    /\ script = "sync_to_route53" /\ pc = "records"
    /\ pos <= Len(Batches(r53_records, batch_size))
    /\ r53zone' = ApplyBatch(r53zone, Batches(r53_records, batch_size)[pos])
    /\ hist' = [hist EXCEPT !.created =
                   @ + Cardinality(r53zone') - Cardinality(r53zone)]
    /\ last' = [script |-> script,
                 submitted |-> Append(Submitted, Batches(r53_records, batch_size)[pos])]
    /\ pos' = pos + 1
    /\ called' = TRUE
    /\ UNCHANGED <<script, pc, zone, nextId, run, listed, exit, cred>>
    /\ UNCHANGED syncVars /\ UNCHANGED pollVars
    /\ UNCHANGED cdnVars

\* the call raises (the provider rejects the batch): nothing of the batch is
\* applied, the exception leaves sync_to_route53 and ends main (186-187)
SubmitBatchRaises ==
    /\ script = "sync_to_route53" /\ pc = "records"
    /\ pos <= Len(Batches(r53_records, batch_size))
    /\ hist' = Failed(hist)
    /\ pc' = "ended"
    /\ exit' = Returns("batch")
    /\ called' = TRUE
    /\ UNCHANGED <<script, zone, nextId, r53zone, run, pos, listed, last, cred>>
    /\ UNCHANGED syncVars /\ UNCHANGED pollVars
    /\ UNCHANGED cdnVars

\* setup_cloudflare_redirects.py 146-183: after the records, the loop over the
\* two page rules, each create_page_rule call in its own try/except.  The page
\* rules the provider holds are not part of the zone of this model.
CreatePageRules ==
    /\ script = "setup_cloudflare_redirects" /\ pc = "records"
    /\ pos > Len(Desired(script))
    /\ pc' = "rules"
    /\ UNCHANGED script /\ UNCHANGED reconVars /\ UNCHANGED syncVars /\ UNCHANGED pollVars
    /\ UNCHANGED cdnVars /\ UNCHANGED procVars

\* the loop over the records (or batches, or page rules) is exhausted: main
\* prints and returns
EndRun ==
    /\ script \in ReconScripts \ {"cf-dns"}
    /\ IF script = "setup_cloudflare_redirects" THEN pc = "rules"
       ELSE /\ pc = "records"
            /\ pos > (IF script = "sync_to_route53"
                      THEN Len(Batches(r53_records, batch_size)) ELSE Len(Desired(script)))
    /\ pc' = "ended"
    /\ exit' = Returns("end")
    /\ UNCHANGED <<script, cred, called>>
    /\ UNCHANGED reconVars /\ UNCHANGED syncVars /\ UNCHANGED pollVars
    /\ UNCHANGED cdnVars

\* the operator runs a script again on the zone the last run left: any of the
\* Cloudflare scripts after a Cloudflare script, the sync after the sync
StartRun ==
    /\ script \in ReconScripts /\ pc = "ended"
    /\ run < MaxRuns
    /\ \E s \in (IF script = "sync_to_route53" THEN {script} ELSE CloudflareScripts) :
         /\ script' = s
         /\ hist' = [prevScript |-> script, prevClean |-> hist.clean,
                     prevZone |-> zone, prevR53 |-> r53zone,
                     clean |-> TRUE, created |-> 0, ran |-> hist.ran \cup {s}]
    /\ run' = run + 1
    /\ pos' = 1
    /\ pc' = FirstStep(script')
    /\ last' = NoInvocation
    /\ exit' = Running
    /\ cred' = NoLookup
    /\ called' = FALSE
    /\ UNCHANGED <<zone, nextId, r53zone, listed>>
    /\ UNCHANGED syncVars /\ UNCHANGED pollVars
    /\ UNCHANGED cdnVars

NextRecon ==
    \/ GetToken \/ Begin \/ UpdateDnsRecord \/ CreatePageRules
    \/ CfDnsUsage \/ AddCnameRecord
    \/ SubmitBatch \/ SubmitBatchRaises \/ EndRun \/ StartRun

SpecRecon == InitRecon /\ [][NextRecon]_vars

-----------------------------------------------------------------------------
(* Properties of the reconciler scripts *)

\* the scripts C8 is about
IdempotentScripts == {"update_cloudfront_dns", "setup_cloudflare_redirects", "sync_to_route53"}

ZoneUnique(z) ==
    \A r1 \in z, r2 \in z : (r1.name = r2.name /\ r1.type = r2.type) => r1 = r2

\* this run repeats the previous one, which went through without a provider failure
\* and left a zone with one record per (name, type)
SecondRun ==
    /\ run >= 2 /\ hist.prevScript = script
    /\ hist.prevClean /\ ZoneUnique(hist.prevZone)

\* C8: a second run of the reconciler with the same desired records, on the zone
\* the first (successful) run left, creates no record and leaves the set of
\* records (id, name, type, content) as it was.
C8_SecondRunChangesNothing ==
    (script \in IdempotentScripts /\ SecondRun) =>
        /\ zone = hist.prevZone
        /\ r53zone = hist.prevR53
        /\ hist.created = 0

C8_Witness ==
    /\ script = "update_cloudfront_dns" /\ SecondRun /\ pc = "ended"
    /\ hist.clean
    /\ last # NoInvocation /\ last.made[1].method = "PUT" /\ last.made[1].ok
    /\ Cardinality(zone) > Cardinality(InitialRecords)

C8_WitnessSync ==
    /\ script = "sync_to_route53" /\ SecondRun /\ pc = "ended" /\ hist.clean
    /\ Len(r53_records) = 2 /\ Cardinality(r53zone) = 2

\* C9: an update_dns_record invocation makes exactly one mutating call: a PUT to the
\* id of an existing record with the desired (full name, type) if the zone holds one,
\* a POST otherwise.
C9_UpdateOrCreate ==
    (last # NoInvocation /\ last.script \in UpdateScripts /\ last.lookupOk) =>
        /\ Len(last.made) = 1
        /\ last.matching # {} =>
              /\ last.made[1].method = "PUT"
              /\ last.made[1].id \in {r.id : r \in last.matching}
        /\ last.matching = {} => last.made[1].method = "POST"

\* C9 as it holds of the two scripts that look the record up by its full name
C9_FullNameLookups ==
    (/\ last # NoInvocation
     /\ last.script \in {"update_cloudfront_dns", "setup_cloudflare_redirects"}
     /\ last.lookupOk) =>
        /\ Len(last.made) = 1
        /\ last.matching # {} =>
              /\ last.made[1].method = "PUT"
              /\ last.made[1].id \in {r.id : r \in last.matching}
        /\ last.matching = {} => last.made[1].method = "POST"

\* C10: the zone holds at most one record per (name, type) after any sequence of
\* runs of the scripts.
C10_OneRecordPerNameType == ZoneUnique(zone)

\* C10 as it holds while only the two full-name create-or-update scripts have run
C10_FullNameLookups ==
    hist.ran \subseteq {"update_cloudfront_dns", "setup_cloudflare_redirects"} =>
        ZoneUnique(zone)

-----------------------------------------------------------------------------
(* CloudFront: fix_cloudfront_monorepo.py and update_cloudfront_origins.py.
   A subprocess result is [returncode, stdout]; stdout is a JSON document or
   text that json.loads rejects. *)

NOT_JSON == [json |-> FALSE]
Json(doc) == [json |-> TRUE, doc |-> doc]
Completed(returncode, stdout) == [returncode |-> returncode, stdout |-> stdout]

\* a variant that parses stdout whatever the exit code was
run_aws_command_ignores_returncode(completed) ==
    IF ~completed.stdout.json THEN None ELSE completed.stdout.doc

\* run_aws_command, lines 7-21 of both scripts
run_aws_command(completed) ==
    IF completed.returncode # 0 THEN None
    ELSE IF ~completed.stdout.json THEN None
    ELSE completed.stdout.doc

CdnScripts == {"fix_cloudfront_monorepo", "update_cloudfront_origins"}

RailwayOriginHost == "rinawarp-terminal-production.up.railway.app"

\* the list `distributions` of main(): fix_cloudfront_monorepo.py 85-102,
\* update_cloudfront_origins.py 52-69
cloudfront_distributions(s) ==
    IF s = "fix_cloudfront_monorepo"
    THEN << [id |-> "E3EC96QLJ50NXE", type |-> "api"],
            [id |-> "E2ZCIDGI8E8OFA", type |-> "docs"],
            [id |-> "E1AKFRIQ3F0D3I", type |-> "main"],
            [id |-> "EU4HII8VPKGWN", type |-> "main"] >>
    ELSE << [id |-> "E3EC96QLJ50NXE", origin |-> RailwayOriginHost],
            [id |-> "E2ZCIDGI8E8OFA", origin |-> RailwayOriginHost],
            [id |-> "E1AKFRIQ3F0D3I", origin |-> RailwayOriginHost],
            [id |-> "EU4HII8VPKGWN", origin |-> RailwayOriginHost] >>

DistIds == { cloudfront_distributions("fix_cloudfront_monorepo")[i].id : i \in 1..4 }

\* dict.update(other)
DictUpdate(d, other) ==
    [k \in DOMAIN d \cup DOMAIN other |-> IF k \in DOMAIN other THEN other[k] ELSE d[k]]

\* fix_cloudfront_monorepo.py 34-59: the keys written into DefaultCacheBehavior
BaseBehavior ==
    [TargetOriginId |-> "RailwayOrigin",
     ViewerProtocolPolicy |-> "redirect-to-https",
     AllowedMethods |->
        [Items |-> <<"GET", "HEAD", "OPTIONS", "PUT", "POST", "PATCH", "DELETE">>,
         Quantity |-> 7,
         CachedMethods |-> [Items |-> <<"GET", "HEAD">>, Quantity |-> 2]],
     MinTTL |-> 0,
     DefaultTTL |-> 0,
     MaxTTL |-> 31536000,
     Compress |-> TRUE,
     ForwardedValues |->
        [QueryString |-> TRUE,
         Cookies |-> [Forward |-> "all"],
         Headers |-> [Quantity |-> 1, Items |-> <<"*">>]]]

\* fix_cloudfront_monorepo.py 62-67
OriginPathFor(domain_type) ==
    IF domain_type = "api" THEN "/api"
    ELSE IF domain_type = "docs" THEN "/docs"
    ELSE ""

\* fix_cloudfront_monorepo.py 34-67: what update_distribution_config makes of the
\* fetched config
MonorepoConfig(config, domain_type) ==
    [config EXCEPT
        !.DefaultCacheBehavior = DictUpdate(@, BaseBehavior),
        !.Origins.Items[1].OriginPath = OriginPathFor(domain_type)]

\* a variant that points every origin of the distribution at the new host
OriginConfig_every_origin(config, new_origin) ==
    [config EXCEPT !.Origins.Items =
        [i \in 1..Len(@) |-> [@[i] EXCEPT !.DomainName = new_origin]]]

\* update_cloudfront_origins.py 34: what update_distribution_origin makes of it
OriginConfig(config, new_origin) ==
    [config EXCEPT !.Origins.Items[1].DomainName = new_origin]

\* the config the mutator of script s writes to temp_config.json for dist
NewConfig(s, dist, config) ==
    IF s = "fix_cloudfront_monorepo"
    THEN MonorepoConfig(config, dist.type)
    ELSE OriginConfig(config, dist.origin)

\* a variant that reports success whatever the CLI gave
Returned_always_true(result) == TRUE

\* the mutator's return value: `return result is not None` (line 81 / line 48)
Returned(result) == result # None

\* a variant in which main calls the mutator again after a failure
AfterInvocation_retries(p, success) == IF success THEN p + 1 ELSE p

\* main(), `for dist in distributions` (105-114 / 72-81): the loop goes on to the
\* next distribution whether the mutator succeeded or not
AfterInvocation(p, success) == p + 1

\* configs a distribution can hold before the run
S3Origin == [Id |-> "S3Origin", DomainName |-> "bucket.s3.amazonaws.com", OriginPath |-> "/old"]
SecondOrigin == [Id |-> "Fallback", DomainName |-> "fallback.example.net", OriginPath |-> "/f"]
OldBehavior ==
    [TargetOriginId |-> "S3Origin", ViewerProtocolPolicy |-> "allow-all",
     SmoothStreaming |-> FALSE, Compress |-> FALSE]
InitialConfigs ==
    { [Origins |-> [Quantity |-> Len(items), Items |-> items],
       DefaultCacheBehavior |-> OldBehavior,
       Comment |-> "as deployed"] : items \in { <<S3Origin>>, <<S3Origin, SecondOrigin>> } }

NoAttempts == [fetch |-> 0, update |-> 0]

InitCdn ==
    /\ script \in CdnScripts
    /\ pc = "update"
    /\ \E c \in InitialConfigs :
         remote = [d \in DistIds |-> [ETag |-> 1, DistributionConfig |-> c]]
    /\ fetched = None
    /\ tempfile = None
    /\ edits = 0
    /\ attempts = [d \in DistIds |-> NoAttempts]
    /\ dlast = NoInvocation
    /\ IdleSync
    /\ IdlePoll
    /\ IdleRecon
    /\ IdleProc

\* what `aws cloudfront get-distribution-config` can give for a distribution: the
\* document, or a failure (non-zero exit, output that is no JSON)
ConfigFetches(d) ==
    { Completed(0, Json(remote[d])), Completed(0, NOT_JSON),
      Completed(255, NOT_JSON), Completed(255, Json(remote[d])) }

\* the first half of the mutator (lines 26-71 / 26-38): fetch, bail out on a null
\* result, else edit the config and write temp_config.json
FetchConfig ==
    /\ script \in CdnScripts /\ pc = "update"
    /\ pos <= Len(cloudfront_distributions(script))
    /\ LET dist == cloudfront_distributions(script)[pos]
       IN  \E completed \in ConfigFetches(dist.id) :
             LET result == run_aws_command(completed)
             IN  /\ attempts' = [attempts EXCEPT ![dist.id].fetch = @ + 1]
                 /\ IF result = None
                    THEN /\ dlast' = [script |-> script, dist |-> dist.id,
                                      fetch |-> completed, result |-> result,
                                      wrote |-> FALSE, submitted |-> FALSE,
                                      returned |-> FALSE]
                         /\ pos' = AfterInvocation(pos, FALSE)
                         /\ UNCHANGED <<pc, fetched, tempfile>>
                    ELSE /\ fetched' = [etag |-> result.ETag,
                                        config |-> NewConfig(script, dist,
                                                             result.DistributionConfig),
                                        fetch |-> completed]
                         /\ tempfile' = fetched'.config
                         /\ pc' = "submit"
                         /\ UNCHANGED <<pos, dlast>>
    /\ UNCHANGED <<script, remote, edits, zone, nextId, r53zone, run, listed, last, hist>>
    /\ UNCHANGED syncVars /\ UNCHANGED pollVars /\ UNCHANGED procVars

\* the second half (lines 74-81 / 41-48): update-distribution with --if-match etag,
\* rm temp_config.json, return.  The provider accepts the update only if the ETag
\* sent is the one the distribution has now; it may also refuse it for another
\* reason.  A refused update is a non-zero exit of the CLI.
SubmitUpdate ==
    /\ script \in CdnScripts /\ pc = "submit"
    /\ LET dist == cloudfront_distributions(script)[pos]
           d == dist.id
           ifmatch == fetched.etag
       IN  \E accepts \in BOOLEAN :
             LET accepted == accepts /\ ifmatch = remote[d].ETag
                 after == IF accepted
                          THEN [ETag |-> remote[d].ETag + 1, DistributionConfig |-> tempfile]
                          ELSE remote[d]
                 completed == IF accepted THEN Completed(0, Json(after))
                                          ELSE Completed(255, NOT_JSON)
                 result == run_aws_command(completed)
             IN  /\ remote' = [remote EXCEPT ![d] = after]
                 /\ attempts' = [attempts EXCEPT ![d].update = @ + 1]
                 /\ dlast' = [script |-> script, dist |-> d,
                              fetch |-> fetched.fetch, result |-> result,
                              wrote |-> TRUE, submitted |-> TRUE,
                              ifmatch |-> ifmatch, sent |-> tempfile,
                              before |-> remote[d],
                              after |-> after, returned |-> Returned(result)]
                 /\ pos' = AfterInvocation(pos, Returned(result))
    /\ tempfile' = None
    /\ fetched' = None
    /\ pc' = "update"
    /\ UNCHANGED <<script, edits, zone, nextId, r53zone, run, listed, last, hist>>
    /\ UNCHANGED syncVars /\ UNCHANGED pollVars /\ UNCHANGED procVars

\* somebody else changes a distribution while the script runs: the provider
\* stores the change under a new ETag
OtherWriter ==
    /\ script \in CdnScripts /\ pc \in {"update", "submit"}
    /\ edits < MaxEdits
    /\ \E d \in DistIds :
         remote' = [remote EXCEPT ![d] =
                      [ETag |-> @.ETag + 1,
                       DistributionConfig |->
                          [@.DistributionConfig EXCEPT !.Comment = "changed by another writer"]]]
    /\ edits' = edits + 1
    /\ UNCHANGED <<script, pc, fetched, tempfile, attempts, dlast>>
    /\ UNCHANGED syncVars /\ UNCHANGED pollVars /\ UNCHANGED reconVars /\ UNCHANGED procVars

\* the for loop is exhausted; main goes on to wait for the deployment (116 / 83)
UpdatesDone ==
    /\ script \in CdnScripts /\ pc = "update"
    /\ pos > Len(cloudfront_distributions(script))
    /\ pc' = "fetch"
    /\ UNCHANGED script /\ UNCHANGED cdnVars /\ UNCHANGED syncVars /\ UNCHANGED pollVars
    /\ UNCHANGED reconVars /\ UNCHANGED procVars

NextCdn == FetchConfig \/ SubmitUpdate \/ OtherWriter \/ UpdatesDone

SpecCdn == InitCdn /\ [][NextCdn]_vars

(* C11: a mutator's update carries the ETag of the fetch its config was derived
   from; when the distribution changed between that fetch and the update, the
   update is rejected, the distribution stays as the other writer left it, and
   the mutator returns False. *)
C11_StaleUpdateRejected ==
    (dlast # NoInvocation /\ dlast.submitted) =>
        /\ dlast.ifmatch = dlast.fetch.stdout.doc.ETag
        /\ dlast.before.ETag # dlast.ifmatch =>
              /\ dlast.after = dlast.before
              /\ dlast.returned = FALSE

C11_Witness ==
    /\ dlast # NoInvocation /\ dlast.submitted
    /\ dlast.before.ETag # dlast.ifmatch
    /\ dlast.before.DistributionConfig.Comment = "changed by another writer"
    /\ remote[dlast.dist] = dlast.before

(* C18: within one run the mutating call on a distribution is attempted at most
   once, and so is the fetch before it: an update rejected for a stale ETag is
   not followed by a second fetch or a second update of that distribution. *)
C18_NoRetry ==
    script \in CdnScripts =>
        \A d \in DistIds : attempts[d].fetch <= 1 /\ attempts[d].update <= 1

C18_Witness ==
    /\ script \in CdnScripts /\ pc = "fetch"
    /\ dlast # NoInvocation /\ dlast.submitted
    /\ dlast.before.ETag # dlast.ifmatch
    /\ ~dlast.returned
    /\ attempts[dlast.dist] = [fetch |-> 1, update |-> 1]

(* C19: a config fetch whose CLI call exits non-zero or prints something that is
   no JSON gives the mutator a null result; the mutator then returns False, has
   not written temp_config.json and has not submitted an update. *)
C19_NullFetchStopsMutator ==
    (dlast # NoInvocation /\ (dlast.fetch.returncode # 0 \/ ~dlast.fetch.stdout.json)) =>
        /\ dlast.result = None
        /\ ~dlast.returned
        /\ ~dlast.wrote
        /\ ~dlast.submitted
        /\ attempts[dlast.dist].update = 0

C19_Witness ==
    /\ dlast # NoInvocation
    /\ dlast.fetch.returncode = 0 /\ ~dlast.fetch.stdout.json
    /\ dlast.result = None /\ ~dlast.returned
    /\ tempfile = None
    /\ attempts[dlast.dist] = [fetch |-> 1, update |-> 0]

-----------------------------------------------------------------------------
(* The other polling loops: monitor_migration.py main() 43-66, monitor_deployment.py
   main() 79-98, and the deployment wait of fix_cloudfront_monorepo.py 117-138 and
   update_cloudfront_origins.py 84-105.  One element of the feed is what one pass
   of the loop is answered. *)

MonitorScripts == {"monitor_migration", "monitor_deployment"} \cup CdnScripts

\* monitor_migration.py 15-20
expected_ns ==
    { "ns-1525.awsdns-62.org.", "ns-1686.awsdns-18.co.uk.",
      "ns-769.awsdns-32.net.", "ns-455.awsdns-56.com." }

\* what `dig ns rinawarptech.com +short` prints, as lines; no output at all is <<>>
DigOutputs ==
    { <<"ns-455.awsdns-56.com.", "ns-769.awsdns-32.net.",
        "ns-1525.awsdns-62.org.", "ns-1686.awsdns-18.co.uk.">>,
      <<"ns-455.awsdns-56.com.", "ns-769.awsdns-32.net.">>,
      <<"dana.ns.cloudflare.com.", "ns-455.awsdns-56.com.", "ns-769.awsdns-32.net.",
        "ns-1525.awsdns-62.org.", "ns-1686.awsdns-18.co.uk.">>,
      <<>> }

\* monitor_migration.py 23: set(output.split('\n')); ''.split('\n') is ['']
current_ns(lines) ==
    IF lines = <<>> THEN {""} ELSE { lines[i] : i \in 1..Len(lines) }

\* a variant that is content when the expected nameservers are among the answers
ns_match_when_included(lines) == expected_ns \subseteq current_ns(lines)

\* check_nameservers, lines 13-25: the second component of its result
ns_match(lines) == current_ns(lines) = expected_ns

MigrationAnswers ==
    { [dig |-> d, cert |-> c] :
        d \in DigOutputs, c \in {"PENDING_VALIDATION", "ISSUED", "FAILED", FETCH_ERROR} }

\* one round over the distributions: every one Deployed, or one of them still in
\* progress, or the status fetch of one of them failing
AllDeployed == [d \in DistIds |-> "Deployed"]
RoundAnswers ==
    {AllDeployed} \cup
    { [AllDeployed EXCEPT ![d] = st] : d \in DistIds, st \in {"InProgress", FETCH_ERROR} }

MonitorAnswers(s) == IF s = "monitor_migration" THEN MigrationAnswers ELSE RoundAnswers

\* the flag all_deployed after the for loop of one round.  monitor_deployment.py
\* 82-91 compares every status, None included, with 'Deployed';
\* fix_cloudfront_monorepo.py 120-131 and update_cloudfront_origins.py 87-98 skip
\* a distribution whose fetch failed (`continue`)
all_deployed(s, round) ==
    \A d \in DistIds :
        IF s = "monitor_deployment"
        THEN round[d] = "Deployed"
        ELSE round[d] = FETCH_ERROR \/ round[d] = "Deployed"

\* the branch one pass of the loop takes: the result printed, where the loop
\* goes, and how the process ends if it does.  In monitor_migration.py a
\* describe-certificate output that json.loads rejects raises in check_certificate
\* (line 31), and nothing around line 46 catches it.
OnCheck(s, answer) ==
    IF s = "monitor_migration"
    THEN IF answer.cert = FETCH_ERROR
         THEN [outcome |-> "crashed", pc |-> "done", exit |-> Uncaught("fetch")]
         ELSE IF ns_match(answer.dig) /\ answer.cert = "ISSUED"
         THEN [outcome |-> "complete", pc |-> "done", exit |-> Returns("fetch")]
         ELSE [outcome |-> "none", pc |-> "sleep", exit |-> Running]
    ELSE IF all_deployed(s, answer)
         THEN [outcome |-> "deployed", pc |-> "done", exit |-> Returns("fetch")]
         ELSE [outcome |-> "none", pc |-> "sleep", exit |-> Running]

InitMonitor ==
    /\ script \in MonitorScripts
    /\ pc = "fetch"
    /\ feed \in SeqsUpTo(MonitorAnswers(script), MaxFeed)
    /\ observed = 0
    /\ waits = 0
    /\ outcome = "none"
    /\ IdleSync
    /\ IdleRecon
    /\ IdleCdn
    /\ IdleProc

\* one pass of the loop body up to the sleep
CheckAt(i, n) ==
    /\ script \in MonitorScripts /\ pc = "fetch"
    /\ observed' = n
    /\ outcome' = OnCheck(script, feed[i]).outcome
    /\ pc' = OnCheck(script, feed[i]).pc
    /\ exit' = OnCheck(script, feed[i]).exit
    /\ UNCHANGED <<script, feed, waits, cred, called>>
    /\ UNCHANGED syncVars /\ UNCHANGED reconVars /\ UNCHANGED cdnVars

Check ==
    /\ observed < Len(feed)
    /\ CheckAt(observed + 1, observed + 1)

\* whether a KeyboardInterrupt raised at this point of the loop is caught:
\* monitor_migration.py 62-66 wraps time.sleep(60) alone; monitor_deployment.py
\* and the deployment waits have no handler; the handlers of cleanup_dns.py
\* (162, 165) and update_cloudflare_dns.py (152, 155) are `except Exception`,
\* which KeyboardInterrupt is not
CatchesInterrupt(s, at) == s = "monitor_migration" /\ at = "sleep"

\* the operator presses Ctrl+C while the loop runs
Interrupt ==
    /\ script \in PollerScripts \cup MonitorScripts
    /\ pc \in {"fetch", "sleep"}
    /\ IF CatchesInterrupt(script, pc)
       THEN /\ outcome' = "cancelled"
            /\ exit' = Exited(0, "sys.exit", pc)
       ELSE /\ outcome' = "crashed"
            /\ exit' = Exited(130, "interrupt", pc)
    /\ pc' = "interrupted"
    /\ UNCHANGED <<script, feed, observed, waits, cred, called>>
    /\ UNCHANGED syncVars /\ UNCHANGED reconVars /\ UNCHANGED cdnVars

InitWatch == InitPoll \/ InitMonitor

NextWatch == NextPoll \/ Check \/ Interrupt

SpecWatch == InitWatch /\ [][NextWatch]_vars

(* C12: an interrupt at any point of a polling loop, during a status fetch as
   well as during the wait, ends the run with a cancelled outcome and not with
   an unhandled exception. *)
C12_InterruptCancels ==
    pc = "interrupted" => (outcome = "cancelled" /\ exit.cause # "interrupt")

\* what holds instead: the one interrupt that is caught is the one arriving
\* during the wait of monitor_migration.py
C12_OnlyMigrationSleep ==
    pc = "interrupted" =>
        (outcome = "cancelled" <=> (script = "monitor_migration" /\ exit.at = "sleep"))

-----------------------------------------------------------------------------
(* The polling loops when the provider keeps answering: after the feed the
   external status stays what the feed's last element says.  The counters
   observed and waits stop counting there.  The process keeps running when it
   can (weak fairness on its steps); nobody interrupts it. *)

\* the answer the next fetch gets, and the fetch count after it
NextAnswer == IF observed < Len(feed) THEN observed + 1 ELSE Len(feed)
NextObserved == IF observed < Len(feed) THEN observed + 1 ELSE observed

FetchStatusOn == Len(feed) >= 1 /\ FetchStatusAt(NextAnswer, NextObserved)

CheckOn == Len(feed) >= 1 /\ CheckAt(NextAnswer, NextObserved)

SleepOn == SleepAt(IF waits < Len(feed) THEN waits + 1 ELSE waits)

NextWatchOn == FetchStatusOn \/ CheckOn \/ SleepOn \/ SleepRaises

SpecWatchFair == InitWatch /\ [][NextWatchOn]_vars /\ WF_vars(NextWatchOn)

\* the external status has reached a terminal state: the certificate is ISSUED or
\* FAILED (for monitor_migration.py with the nameservers matching), every
\* distribution is Deployed
TerminalStatus(s, answer) ==
    IF s \in PollerScripts THEN answer \in {"ISSUED", "FAILED"}
    ELSE IF s = "monitor_migration"
         THEN ns_match(answer.dig) /\ answer.cert \in {"ISSUED", "FAILED"}
    ELSE answer = AllDeployed

StaysTerminal == Len(feed) >= 1 /\ TerminalStatus(script, Last(feed))

(* C20: if the external status reaches a terminal state and stays there, the
   polling loop eventually exits. *)
C20_PollersExit == StaysTerminal => <>(pc = "done")

\* what holds instead: every loop but the one of monitor_migration.py exits, and
\* that one exits when the certificate ends up ISSUED
C20_ExitsButOnFailed ==
    (StaysTerminal /\ ~(script = "monitor_migration" /\ Last(feed).cert = "FAILED"))
        => <>(pc = "done")

-----------------------------------------------------------------------------
(* cleanup_dns.py main(), lines 90-135: the steps before its certificate poller *)

\* lines 103-108
route53_nameservers ==
    { <<"ns-1525.awsdns-62.org">>, <<"ns-1686.awsdns-18.co.uk">>,
      <<"ns-769.awsdns-32.net">>, <<"ns-455.awsdns-56.com">> }

\* lines 122-128
validation_record ==
    [type |-> "CNAME", name |-> ValidationName, content |-> ValidationTarget]

\* records a zone can hold before the run: two NS records of the Route 53
\* delegation, one NS record of another provider, and a record of another type
\* whose content is one of the four nameservers
CleanupRecords ==
    { [id |-> 1, name |-> ZONE_NAME, type |-> "NS", content |-> <<"ns-1525.awsdns-62.org">>],
      [id |-> 2, name |-> ZONE_NAME, type |-> "NS", content |-> <<"dana.ns.cloudflare.com">>],
      [id |-> 3, name |-> ZONE_NAME, type |-> "NS", content |-> <<"ns-769.awsdns-32.net">>],
      [id |-> 4, name |-> Host("ns"), type |-> "CNAME", content |-> <<"ns-1525.awsdns-62.org">>] }

RECURSIVE SortById(_)
\* the provider lists records in the order of their ids
SortById(S) ==
    IF S = {} THEN <<>>
    ELSE LET first == CHOOSE r \in S : \A q \in S : r.id <= q.id
         IN  <<first>> \o SortById(S \ {first})

\* a variant in which the provider is not given the type and lists every record
get_dns_records_any_type(z, type) == SortById(z)

\* get_dns_records(zone_id, token, 'NS'), lines 36-53
get_dns_records(z, type) == SortById({r \in z : r.type = type})

InitCleanup ==
    /\ script = "cleanup_dns"
    /\ pc = "start"
    /\ zone \in SUBSET CleanupRecords
    /\ nextId = Cardinality(CleanupRecords) + 1
    /\ r53zone = {}
    /\ run = 1
    /\ pos = 1
    /\ listed = <<>>
    /\ last = NoInvocation
    /\ hist = [NoHistory EXCEPT !.ran = {script}, !.prevZone = zone]
    /\ IdleSync
    /\ IdlePoll
    /\ IdleCdn
    /\ IdleProc

\* line 110: the list call.  It is inside the try block of main only: when it
\* raises, main prints the error and returns.
ListNsRecords ==
    /\ script = "cleanup_dns" /\ pc = "records"
    /\ \E ok \in BOOLEAN :
         IF ok
         THEN /\ listed' = get_dns_records(zone, "NS")
              /\ pc' = "delete"
              /\ UNCHANGED <<hist, exit>>
         ELSE /\ pc' = "ended"
              /\ hist' = Failed(hist)
              /\ exit' = EndsOnRaise(script, "list")
              /\ UNCHANGED listed
    /\ UNCHANGED <<script, zone, nextId, r53zone, run, pos, last, cred, called>>
    /\ UNCHANGED syncVars /\ UNCHANGED pollVars /\ UNCHANGED cdnVars

\* history: the ids the run has called delete_dns_record for, in call order
DeleteCalls == IF last = NoInvocation THEN <<>> ELSE last.deletes

\* lines 111-118: one pass of the loop over the listed records.  A record whose
\* content is none of the four nameservers is passed over.  delete_dns_record
\* (76-88) ends with response.raise_for_status(): on an HTTP error it raises, and
\* between the call and the try block of main (91, 165) there is no handler.
DeleteNsRecord ==
    /\ script = "cleanup_dns" /\ pc = "delete"
    /\ pos <= Len(listed)
    /\ LET record == listed[pos]
       IN  IF record.content \in route53_nameservers
           THEN \E answer \in {"deleted", "refused", "http_error"} :
                  /\ last' = [script |-> script, record |-> record, answer |-> answer,
                               deletes |-> Append(DeleteCalls, record.id)]
                  /\ zone' = IF answer = "deleted" THEN zone \ {record} ELSE zone
                  /\ hist' = IF answer = "deleted" THEN hist ELSE Failed(hist)
                  /\ IF answer = "http_error"
                     THEN /\ pc' = "ended"
                          /\ exit' = EndsOnRaise(script, "record")
                          /\ UNCHANGED pos
                     ELSE /\ pos' = pos + 1
                          /\ UNCHANGED <<pc, exit>>
           ELSE /\ pos' = pos + 1
                /\ UNCHANGED <<zone, last, hist, pc, exit>>
    /\ UNCHANGED <<script, nextId, r53zone, run, listed, cred, called>>
    /\ UNCHANGED syncVars /\ UNCHANGED pollVars /\ UNCHANGED cdnVars

\* lines 120-135: after the loop, create_dns_record posts the validation record,
\* whatever the zone holds; then main goes on to the poller (137-163)
CreateValidationRecord ==
    /\ script = "cleanup_dns" /\ pc = "delete"
    /\ pos > Len(listed)
    /\ \E answer \in {"created", "refused", "http_error"} :
         /\ zone' = IF answer = "created"
                    THEN zone \cup {Stored(nextId, validation_record)} ELSE zone
         /\ nextId' = IF answer = "created" THEN nextId + 1 ELSE nextId
         /\ hist' = IF answer = "created" THEN [hist EXCEPT !.created = @ + 1]
                                          ELSE Failed(hist)
         /\ pc' = IF answer = "http_error" THEN "ended" ELSE "fetch"
         /\ exit' = IF answer = "http_error" THEN EndsOnRaise(script, "create") ELSE exit
    /\ UNCHANGED <<script, r53zone, run, pos, listed, last, cred, called>>
    /\ UNCHANGED syncVars /\ UNCHANGED pollVars /\ UNCHANGED cdnVars

NextCleanup ==
    GetToken \/ Begin \/ ListNsRecords \/ DeleteNsRecord \/ CreateValidationRecord

SpecCleanup == InitCleanup /\ [][NextCleanup]_vars

(* C16: a provider failure on one record of the list a script processes is
   fatal for that record only: it does not end the run, the later records are
   processed and the later steps run. *)
C16_RecordFailureIsLocal == ~(pc = "ended" /\ exit.at = "record")

\* what holds of update_cloudfront_dns.py, setup_cloudflare_redirects.py and
\* update_cloudflare_dns.py: a run that got its zone id ends after the last record
C16_UpdateScripts ==
    (script \in UpdateScripts /\ pc = "ended") =>
        /\ exit.at \in {"token", "zone", "end"}
        /\ exit.at = "end" => pos > Len(Desired(script))

-----------------------------------------------------------------------------
(* The beginning of every main that looks up a token *)

InitStart == InitSync \/ InitRecon \/ InitCleanup

NextStart == GetToken \/ Begin \/ FetchRecords

SpecStart == InitStart /\ [][NextStart]_vars

\* the cluster lookup failed: kubectl did not start, exited non-zero, or gave
\* something that does not decode
LookupFailed ==
    /\ cred # NoLookup
    /\ ~cred.kubectl.started \/ cred.kubectl.returncode # 0 \/ ~cred.kubectl.decodes

(* C14: whenever the cluster lookup fails, in whichever way, get_cloudflare_token
   returns the value of CLOUDFLARE_API_TOKEN and does not raise. *)
C14_FallsBackOnEveryFailure ==
    LookupFailed => (~cred.result.raised /\ cred.result.value = cred.env)

\* what holds instead: the fallback is taken on a non-zero exit of kubectl, and
\* the other two failures raise
C14_FallsBackOnNonZeroExit ==
    LookupFailed =>
        IF cred.kubectl.started /\ cred.kubectl.returncode # 0
        THEN ~cred.result.raised /\ cred.result.value = cred.env
        ELSE cred.result.raised

(* C15: when no credential is found (the cluster lookup fails and the
   environment variable is unset or empty) the run is over without a single
   call to a provider. *)
C15_NoCredentialNoCall ==
    (LookupFailed /\ cred.env \in {None, Tok("")}) =>
        /\ pc = "ended"
        /\ ~called

C15_Witness ==
    /\ LookupFailed /\ cred.env = None
    /\ cred.kubectl.started /\ cred.kubectl.returncode # 0
    /\ script = "setup_cloudflare_redirects"
    /\ pc = "ended" /\ ~called /\ exit.code = 0

-----------------------------------------------------------------------------
(* Exit codes: the runs of the record-writing scripts, of cleanup_dns.py and of
   the polling loops together *)

InitExit == InitRecon \/ InitCleanup \/ InitWatch

NextExit == NextRecon \/ NextCleanup \/ NextWatch

SpecExit == InitExit /\ [][NextExit]_vars

\* the process has ended, and not by the operator's interrupt
Ended == exit # Running /\ exit.cause # "interrupt"

(* C13 as stated: a run ends with a non-zero exit code only when the script was
   invoked with the wrong number of arguments; after any other failure it ends
   with exit code 0. *)
C13_NonZeroOnlyForUsage == Ended => (exit.code # 0 => exit.cause = "usage")

(* C13, amended: a run ends with a non-zero exit code exactly when cf-dns.py was
   invoked with the wrong number of arguments, or setup_cloudflare_redirects.py
   met an exception in its token lookup or a failing zone lookup, or
   monitor_migration.py got certificate output it cannot parse; every other
   failure is caught and printed and the run ends with exit code 0. *)
C13_ExitCodes ==
    Ended =>
        (exit.code # 0 <=>
            \/ (script = "cf-dns" /\ exit.at = "arguments")
            \/ /\ script = "setup_cloudflare_redirects"
               /\ \/ exit.at = "token" /\ cred.result.raised
                  \/ exit.at = "zone"
            \/ (script = "monitor_migration" /\ outcome = "crashed"))

C13_Witness ==
    /\ script = "setup_cloudflare_redirects"
    /\ pc = "ended" /\ called
    /\ exit = Uncaught("zone")

-----------------------------------------------------------------------------
(* sync_to_route53 on long change lists *)

\* a list of n changes, each for a name of its own
LongList(n) ==
    [k \in 1..n |->
        Change(<<"h">> \o Str(k) \o <<DOT>> \o ZONE_NAME \o <<DOT>>, "A", DefaultTtl, IP1)]

InitBatch ==
    /\ script = "sync_to_route53"
    /\ pc = "begin"
    /\ r53_records \in { LongList(n) : n \in 0..MaxChanges }
    /\ zone = {}
    /\ nextId = FirstFreeId
    /\ r53zone \in InitialR53Zones
    /\ run = 1
    /\ pos = 1
    /\ listed = <<>>
    /\ last = NoInvocation
    /\ hist = [NoHistory EXCEPT !.ran = {script}]
    /\ cf_records = <<>> /\ idx = 1 /\ skipped_records = <<>>
    /\ r53_src = <<>> /\ resolved = <<>>
    /\ IdlePoll
    /\ IdleCdn
    /\ IdleProc

NextBatch == Begin \/ SubmitBatch \/ SubmitBatchRaises \/ EndRun

SpecBatch == InitBatch /\ [][NextBatch]_vars

RECURSIVE Flatten(_)
Flatten(seqs) == IF seqs = <<>> THEN <<>> ELSE Head(seqs) \o Flatten(Tail(seqs))

(* C17: no call of sync_to_route53 carries more than 100 changes or none; the
   batches submitted so far, concatenated in call order, are the beginning of
   the input list; and when every call returned, they are the whole list, each
   change once, in ceil(length/100) calls. *)
C17_BatchesOfAtMost100 ==
    script = "sync_to_route53" =>
        /\ \A b \in 1..Len(Submitted) : Len(Submitted[b]) >= 1 /\ Len(Submitted[b]) <= 100
        /\ Len(Flatten(Submitted)) <= Len(r53_records)
        /\ Flatten(Submitted) = SubSeq(r53_records, 1, Len(Flatten(Submitted)))
        /\ (pc = "ended" /\ hist.clean) =>
              /\ Flatten(Submitted) = r53_records
              /\ Len(Submitted) = (Len(r53_records) + 99) \div 100
              /\ \A i, j \in 1..Len(r53_records) : r53_records[i] = r53_records[j] => i = j

C17_Witness ==
    /\ script = "sync_to_route53" /\ pc = "ended" /\ hist.clean
    /\ Len(r53_records) = 201
    /\ Len(Submitted) = 3
    /\ Len(Submitted[1]) = 100 /\ Len(Submitted[3]) = 1

-----------------------------------------------------------------------------
(* The deployment wait: the round the loop has just been answered. *)

WaitScripts == {"monitor_deployment"} \cup CdnScripts

\* the statuses of the round that set all_deployed, by distribution
LastRound == feed[observed]

(* C21: the deployment wait reports all distributions deployed only after a
   round in which the status of every distribution was fetched and is Deployed;
   a round with a failed status fetch never counts. *)
C21_DeployedOnlyAfterFullRound ==
    (script \in WaitScripts /\ outcome = "deployed") =>
        \A d \in DistIds : LastRound[d] = "Deployed"

\* what holds instead: monitor_deployment.py compares None with 'Deployed' and
\* waits again; the two updating scripts count a failed fetch as no objection
C21_MonitorDeploymentOnly ==
    (script \in WaitScripts /\ outcome = "deployed") =>
        /\ \A d \in DistIds : LastRound[d] \in {"Deployed", FETCH_ERROR}
        /\ script = "monitor_deployment" => \A d \in DistIds : LastRound[d] = "Deployed"

-----------------------------------------------------------------------------
(* sync_dns_records.py main(), lines 162-187: the confirmation prompt and the
   call of sync_to_route53.  Answers are sequences of characters. *)

UpperOf == [y |-> "Y", e |-> "E", s |-> "S", n |-> "N", o |-> "O"]

\* str.lower on one character of the alphabet the answers are written in
LowerChar(c) ==
    IF \E k \in DOMAIN UpperOf : UpperOf[k] = c
    THEN CHOOSE k \in DOMAIN UpperOf : UpperOf[k] = c
    ELSE c

\* str.lower
str_lower(s) == [i \in 1..Len(s) |-> LowerChar(s[i])]

\* what the operator can type at the prompt of line 176
Responses ==
    { <<"y", "e", "s">>, <<"Y", "E", "S">>, <<"Y", "e", "s">>,
      <<"n", "o">>, <<"y">>, <<>>, <<"y", "e", "s", SP>>, <<"y", "e", "s", "s">> }

\* how input() ends: with a line, with EOFError on a closed stdin, or with
\* the operator's interrupt
PromptOutcomes == {"answered", "eof", "interrupt"}

\* a variant that takes every answer beginning with y for a yes
Proceeds_on_first_letter(response) ==
    response # <<>> /\ str_lower(response)[1] = "y"

\* line 177, negated: response.lower() == 'yes'
Proceeds(response) == str_lower(response) = <<"y", "e", "s">>

\* the Route 53 zone before the run: it holds a record already, so that a zone
\* left alone and a zone written to differ
ExistingR53Zone == { Change(SubName \o <<DOT>>, "A", 60, IP2).ResourceRecordSet }

InitConfirm ==
    /\ script = "sync_dns_records"
    /\ pc = "start"
    /\ cf_records = <<>> /\ idx = 1 /\ r53_records = <<>> /\ skipped_records = <<>>
    /\ r53_src = <<>> /\ resolved = <<>>
    /\ zone = {} /\ nextId = 1 /\ run = 1 /\ pos = 1 /\ listed = <<>>
    /\ r53zone = ExistingR53Zone
    /\ last = NoInvocation
    /\ hist = [NoHistory EXCEPT !.prevR53 = r53zone]
    /\ IdlePoll
    /\ IdleCdn
    /\ IdleProc

\* lines 176-183: input(), the comparison, and on a yes the call of
\* sync_to_route53.  EOFError is caught by the handler of main (186); a
\* KeyboardInterrupt is not an Exception and leaves main.
Confirm ==
    /\ script = "sync_dns_records" /\ pc = "confirm"
    /\ \E how \in PromptOutcomes, response \in Responses :
         /\ how # "answered" => response = <<>>
         /\ last' = [script |-> script, prompt |-> how, response |-> response,
                     submitted |-> <<>>]
         /\ IF how = "eof"
            THEN pc' = "ended" /\ exit' = Returns("prompt") /\ hist' = Failed(hist)
            ELSE IF how = "interrupt"
            THEN pc' = "ended" /\ exit' = Exited(130, "interrupt", "prompt")
                 /\ UNCHANGED hist
            ELSE IF Proceeds(response)
            THEN pc' = "records" /\ UNCHANGED <<exit, hist>>
            ELSE pc' = "ended" /\ exit' = Returns("cancelled") /\ UNCHANGED hist
    /\ pos' = 1
    /\ UNCHANGED <<script, zone, nextId, r53zone, run, listed, cred, called>>
    /\ UNCHANGED syncVars /\ UNCHANGED pollVars /\ UNCHANGED cdnVars

\* sync_to_route53 called from main (line 183): one change_resource_record_sets
\* call, which the provider applies or rejects; a rejection raises into the
\* handler of main
SyncBatch ==
    /\ script = "sync_dns_records" /\ pc = "records"
    /\ pos <= Len(Batches(r53_records, batch_size))
    /\ called' = TRUE
    /\ \E ok \in BOOLEAN :
         IF ok
         THEN /\ r53zone' = ApplyBatch(r53zone, Batches(r53_records, batch_size)[pos])
              /\ last' = [last EXCEPT !.submitted =
                             Append(@, Batches(r53_records, batch_size)[pos])]
              /\ pos' = pos + 1
              /\ UNCHANGED <<pc, exit, hist>>
         ELSE /\ pc' = "ended"
              /\ exit' = Returns("batch")
              /\ hist' = Failed(hist)
              /\ UNCHANGED <<r53zone, last, pos>>
    /\ UNCHANGED <<script, zone, nextId, run, listed, cred>>
    /\ UNCHANGED syncVars /\ UNCHANGED pollVars /\ UNCHANGED cdnVars

\* lines 183-184: sync_to_route53 returned, main prints and returns
SyncDone ==
    /\ script = "sync_dns_records" /\ pc = "records"
    /\ pos > Len(Batches(r53_records, batch_size))
    /\ pc' = "ended"
    /\ exit' = Returns("end")
    /\ UNCHANGED <<script, cred, called>>
    /\ UNCHANGED reconVars /\ UNCHANGED syncVars /\ UNCHANGED pollVars /\ UNCHANGED cdnVars

NextConfirm == NextSync \/ Confirm \/ SyncBatch \/ SyncDone

SpecConfirm == InitConfirm /\ [][NextConfirm]_vars

\* the answers the claim counts as a yes: y, e, s in either case
YesAnswers ==
    { <<a, b, c>> : a \in {"y", "Y"}, b \in {"e", "E"}, c \in {"s", "S"} }

\* the operator answered the prompt of this run with a yes
AnsweredYes ==
    last # NoInvocation /\ last.prompt = "answered" /\ last.response \in YesAnswers

(* C22: unless the operator answered the prompt with yes (in any case), the
   run never calls sync_to_route53 and the Route 53 zone is as it was: on every
   other answer, and on any error before or at the prompt. *)
C22_NoSyncWithoutYes ==
    (script = "sync_dns_records" /\ ~AnsweredYes) =>
        /\ pc # "records"
        /\ Submitted = <<>>
        /\ r53zone = hist.prevR53

C22_Witness ==
    /\ script = "sync_dns_records" /\ pc = "ended"
    /\ last # NoInvocation /\ last.prompt = "answered"
    /\ last.response = <<"y">>
    /\ Len(r53_records) = 2
    /\ r53zone = hist.prevR53 /\ r53zone # {}
    /\ Submitted = <<>>

\* the other side: after a yes the changes are submitted and the zone changes
C22_SyncedAfterYes ==
    /\ script = "sync_dns_records" /\ pc = "ended" /\ AnsweredYes
    /\ last.response = <<"Y", "e", "s">>
    /\ Submitted = <<r53_records>> /\ r53zone # hist.prevR53

-----------------------------------------------------------------------------
(* The apex CNAME filter of main(), lines 153-156, seen from the list that is
   submitted. *)

\* a change operation that is a CNAME at the zone apex
IsApexCnameChange(change) ==
    /\ change.ResourceRecordSet.Type = "CNAME"
    /\ SameName(change.ResourceRecordSet.Name, ZONE_NAME)

\* the source records put in the skipped list
Skipped == { skipped_records[i] : i \in 1..Len(skipped_records) }

(* C23: no change in the list the sync run builds and submits is a CNAME at
   the zone apex; every apex CNAME source record handled, whatever its
   content, is in the skipped list, was not handed to the conversion and has no
   change. *)
C23_NoApexCname ==
    script = "sync_dns_records" =>
        /\ \A k \in 1..Len(r53_records) : ~IsApexCnameChange(r53_records[k])
        /\ \A b \in 1..Len(Submitted) : \A j \in 1..Len(Submitted[b]) :
               ~IsApexCnameChange(Submitted[b][j])
        /\ \A i \in Handled :
               (cf_records[i].type = "CNAME" /\ cf_records[i].name = ApexName) =>
                   /\ cf_records[i] \in Skipped
                   /\ resolved[i] = NOT_CALLED
                   /\ ChangesOf(i) = {}

C23_Witness ==
    /\ script = "sync_dns_records" /\ pc = "ended" /\ AnsweredYes
    /\ Len(cf_records) = 2
    /\ cf_records[1] = CfRecord("CNAME", ApexName, RailwayHost, 3600, Absent)
    /\ cf_records[2].type = "CNAME" /\ cf_records[2].name = SubName
    /\ skipped_records = <<cf_records[1]>>
    /\ Len(Submitted) = 1 /\ Len(Submitted[1]) = 1
    /\ Submitted[1][1].ResourceRecordSet.Type = "CNAME"

-----------------------------------------------------------------------------
(* update_distribution_origin: the config submitted against the config fetched *)

\* the config the last invocation fetched, and the one it submitted
FetchedConfig == dlast.fetch.stdout.doc.DistributionConfig
SentConfig == dlast.sent

\* update_distribution_origin has submitted an update
OriginSubmitted ==
    script = "update_cloudfront_origins" /\ dlast # NoInvocation /\ dlast.submitted

(* C24: the config update_distribution_origin submits is the fetched config
   with the domain name of the first origin replaced by the new origin: the
   other fields of the first origin, all other origins, the cache behaviour
   and every other field are as fetched. *)
C24_OnlyFirstOriginDomain ==
    OriginSubmitted =>
        /\ DOMAIN SentConfig = DOMAIN FetchedConfig
        /\ \A k \in DOMAIN FetchedConfig \ {"Origins"} : SentConfig[k] = FetchedConfig[k]
        /\ DOMAIN SentConfig.Origins = DOMAIN FetchedConfig.Origins
        /\ SentConfig.Origins.Quantity = FetchedConfig.Origins.Quantity
        /\ Len(SentConfig.Origins.Items) = Len(FetchedConfig.Origins.Items)
        /\ \A i \in 2..Len(FetchedConfig.Origins.Items) :
               SentConfig.Origins.Items[i] = FetchedConfig.Origins.Items[i]
        /\ DOMAIN SentConfig.Origins.Items[1] = DOMAIN FetchedConfig.Origins.Items[1]
        /\ \A k \in DOMAIN FetchedConfig.Origins.Items[1] \ {"DomainName"} :
               SentConfig.Origins.Items[1][k] = FetchedConfig.Origins.Items[1][k]
        /\ SentConfig.Origins.Items[1].DomainName = RailwayOriginHost

C24_Witness ==
    /\ OriginSubmitted
    /\ dlast.returned
    /\ Len(FetchedConfig.Origins.Items) = 2
    /\ FetchedConfig.Comment = "changed by another writer"
    /\ SentConfig # FetchedConfig
    /\ dlast.after.DistributionConfig = SentConfig

-----------------------------------------------------------------------------
(* The deletion phase of cleanup_dns.py against the zone it started from *)

\* the records the run may delete: NS records of the four Route 53 nameservers
IsRoute53Ns(r) == r.type = "NS" /\ r.content \in route53_nameservers

(* C25: the cleanup run deletes only NS records whose content is one of the
   four Route 53 nameservers: every record of another type and every NS record
   with other content that the zone held is still in it, and no record gets
   more than one delete call. *)
C25_DeletesOnlyRoute53Ns ==
    script = "cleanup_dns" =>
        /\ \A r \in hist.prevZone : ~IsRoute53Ns(r) => r \in zone
        /\ \A i \in 1..Len(DeleteCalls) :
               \E r \in hist.prevZone : r.id = DeleteCalls[i] /\ IsRoute53Ns(r)
        /\ \A i, j \in 1..Len(DeleteCalls) : DeleteCalls[i] = DeleteCalls[j] => i = j

C25_Witness ==
    /\ script = "cleanup_dns" /\ pc = "fetch"
    /\ hist.prevZone = CleanupRecords
    /\ DeleteCalls = <<1, 3>>
    /\ \A r \in CleanupRecords : r \in zone <=> r.id \in {2, 4}

-----------------------------------------------------------------------------
(* The migration monitor: what one iteration observed against what it did *)

\* the four nameservers the monitor waits for, as dig prints them
FourNameservers ==
    { "ns-1525.awsdns-62.org.", "ns-1686.awsdns-18.co.uk.",
      "ns-769.awsdns-32.net.", "ns-455.awsdns-56.com." }

\* the iteration that observed feed[i] saw the four nameservers and ISSUED
BothMet(i) ==
    /\ { feed[i].dig[k] : k \in 1..Len(feed[i].dig) } = FourNameservers
    /\ feed[i].cert = "ISSUED"

\* the last iteration observed both the nameservers and a certificate status
ObservedPair ==
    script = "monitor_migration" /\ observed >= 1 /\ feed[observed].cert # FETCH_ERROR

(* C26: the migration monitor reports the prerequisites complete and leaves its
   loop only in an iteration that itself observed exactly the four expected
   nameservers and the status ISSUED; after any other pair of observations it
   waits, and it observes again only after the wait.  What earlier iterations
   observed does not count. *)
C26_CompleteOnlyOnBoth ==
    /\ (script = "monitor_migration" /\ outcome = "complete") =>
           /\ ObservedPair /\ BothMet(observed)
           /\ \A i \in 1..(observed - 1) : ~BothMet(i)
    /\ (ObservedPair /\ ~BothMet(observed)) =>
           /\ outcome # "complete"
           /\ pc \in {"sleep", "fetch", "interrupted"}
           /\ pc = "fetch" => waits = observed
    /\ (ObservedPair /\ BothMet(observed)) => (outcome = "complete" /\ pc = "done")

C26_Witness ==
    /\ script = "monitor_migration" /\ outcome = "complete" /\ pc = "done"
    /\ observed = 3 /\ waits = 2
    /\ ns_match(feed[1].dig) /\ feed[1].cert = "PENDING_VALIDATION"
    /\ Len(feed[2].dig) = 5 /\ feed[2].cert = "ISSUED"
    /\ BothMet(3)

-----------------------------------------------------------------------------
(* The status fetch of the poller of cleanup_dns.py, lines 142-149, by what the
   CLI call gave: one element of the feed is one finished subprocess. *)

CertificateDoc(status) == [Certificate |-> [Status |-> status]]

\* what `aws acm describe-certificate` can end with: exit code 0 and a document
\* with a Status, exit code 0 and a document without it, exit code 0 and output
\* that is no JSON, a non-zero exit code with or without a document on stdout
CertFetches ==
    { Completed(0, Json(CertificateDoc(st))) : st \in {"PENDING_VALIDATION", "ISSUED", "FAILED"} }
    \cup { Completed(0, Json([Certificate |-> [CertificateArn |-> "arn"]])),
           Completed(0, NOT_JSON),
           Completed(255, NOT_JSON),
           Completed(255, Json(CertificateDoc("ISSUED"))) }

HasStatus(doc) == "Certificate" \in DOMAIN doc /\ "Status" \in DOMAIN doc.Certificate

\* a variant that reads stdout whatever the exit code was (no check=True)
certificate_status_unchecked(completed) ==
    IF ~completed.stdout.json THEN FETCH_ERROR
    ELSE IF ~HasStatus(completed.stdout.doc) THEN FETCH_ERROR
    ELSE completed.stdout.doc.Certificate.Status

\* lines 143-148: subprocess.run(..., check=True) raises CalledProcessError on a
\* non-zero exit, json.loads raises on other output, the subscripts raise
\* KeyError; each is an Exception for the handler of line 162
certificate_status(completed) ==
    IF completed.returncode # 0 THEN FETCH_ERROR
    ELSE IF ~completed.stdout.json THEN FETCH_ERROR
    ELSE IF ~HasStatus(completed.stdout.doc) THEN FETCH_ERROR
    ELSE completed.stdout.doc.Certificate.Status

InitCert ==
    /\ script = "cleanup_dns"
    /\ pc = "fetch"
    /\ feed \in SeqsUpTo(CertFetches, MaxFeed)
    /\ observed = 0
    /\ waits = 0
    /\ outcome = "none"
    /\ IdleSync
    /\ IdleRecon
    /\ IdleCdn
    /\ IdleProc

\* one pass of the loop body up to the sleep (lines 142-160, 162-164)
DescribeCertificate ==
    /\ script = "cleanup_dns" /\ pc = "fetch"
    /\ observed < Len(feed)
    /\ observed' = observed + 1
    /\ LET branch == OnAnswer(certificate_status(feed[observed + 1]))
       IN  /\ outcome' = branch.outcome
           /\ pc' = branch.pc
           /\ exit' = IF branch.pc = "done" THEN Returns("fetch") ELSE exit
    /\ UNCHANGED <<script, feed, waits, cred, called>>
    /\ UNCHANGED syncVars /\ UNCHANGED reconVars /\ UNCHANGED cdnVars

NextCert == DescribeCertificate \/ Sleep

SpecCert == InitCert /\ [][NextCert]_vars

\* the fetch failed: the CLI exited non-zero, or printed no JSON, or a document
\* without a certificate status
FetchFails(completed) ==
    \/ completed.returncode # 0
    \/ ~completed.stdout.json
    \/ ~HasStatus(completed.stdout.doc)

(* C27: in the poller of the cleanup run a failing status fetch (CLI error,
   unparsable output, no Status field) ends the loop at once: it is the last
   fetch, no wait follows it, the run ends, and the certificate is not reported
   validated. *)
C27_FailedFetchEndsPolling ==
    \A i \in 1..observed :
        FetchFails(feed[i]) =>
            /\ i = observed
            /\ waits = observed - 1
            /\ pc = "done"
            /\ outcome = "error"
            /\ exit = Returns("fetch")

C27_Witness ==
    /\ script = "cleanup_dns" /\ pc = "done" /\ outcome = "error"
    /\ Len(feed) = 3 /\ observed = 2 /\ waits = 1
    /\ feed[1] = Completed(0, Json(CertificateDoc("PENDING_VALIDATION")))
    /\ feed[2] = Completed(255, Json(CertificateDoc("ISSUED")))
    /\ feed[3] = Completed(0, Json(CertificateDoc("ISSUED")))

====
